---- MODULE Spec2Model ----
(***************************************************************************)
(* The process-queue edge function (SMTP transport) of steady-mail-stream, *)
(* run by several overlapping invocations against one shared store.        *)
(* Every await of the handler is one step, so store reads and writes of    *)
(* different invocations interleave exactly where the code yields.         *)
(***************************************************************************)
EXTENDS Integers, Sequences, FiniteSets, TLC

\* ---- bounds of the model ------------------------------------------------
NumMsgs == 3
NumInvocations == 2
\* invocations the scheduler starts in all
MaxRuns == 2
\* invocations the platform may end early
MaxAborts == 1

\* rows the tracking endpoints may insert in all
MaxEvents == 2
\* calls of signRequest that are compared
MaxSignCalls == 2

\* .limit(50) of the batch fetch, scaled so that the cap cuts a batch
BatchLimit == 2
\* DEFAULT 20 / DEFAULT 100 of the profiles columns, scaled
HourlyLimitDefault == 1
DailyLimitDefault == 2

Msgs == 1..NumMsgs
Invocations == 1..NumInvocations
Users == {"u1", "u2"}
Campaigns == {"c1", "c2"}

\* ---- immutable columns of the email_queue rows --------------------------
user_id(m) == IF m % 2 = 1 THEN "u1" ELSE "u2"
campaign_id(m) == IF m % 2 = 1 THEN "c1" ELSE "c2"
\* rows of one bulk insert share their DEFAULT NOW() timestamp
created_at(m) == (m + 2) \div 2
\* profiles.smtp_encryption: 'ssl' is implicit TLS, anything else STARTTLS
smtp_encryption(u) == IF u = "u1" THEN "tls" ELSE "ssl"

VARIABLES
  email_queue,   \* [Msgs -> [status, attempt_count, error_log, sent_at]]
  campaigns,     \* [Campaigns -> status]
  profiles,      \* [Users -> [smtp, emails_sent_this_hour, ...]]
  pc,            \* [Invocations -> position in the handler]
  pendingEmails, \* [Invocations -> fetched batch: Seq of [id, attempt_count]]
  gi,            \* [Invocations -> index of the current group of emailsByUser]
  ei,            \* [Invocations -> index of the current email in the group]
  sendResult,    \* [Invocations -> outcome of the last connect / sendEmail]
  replies,       \* [Invocations -> server replies of that connect / sendEmail]
  affected,      \* [Invocations -> affectedCampaignIds in insertion order]
  ai,            \* [Invocations -> index in the campaignIds being aggregated]
  pendingCount,  \* [Invocations -> count read by updateCampaignStatuses]
  counts,        \* [Invocations -> [success, errors]]
  response,      \* [Invocations -> response being returned]
  connOpen,      \* [Invocations -> accounts whose SmtpClient socket is open]
  dispatched,    \* history: [Msgs -> number of MAIL FROM issued for the row]
  handed,        \* history: [Msgs -> bodies handed to a provider for the row]
  html,          \* a body given to rewriteLinksForTracking
  rewritten,     \* what rewriteLinksForTracking returned for html
  request,       \* the request a tracking endpoint is handling
  reply,         \* the last Response of a tracking endpoint
  email_opens,   \* rows of the email_opens table
  email_clicks,  \* rows of the email_clicks table
  wire,          \* what the SmtpClient wrote to its socket, with the server's answer
  srvAt,         \* number of elements of wire the SMTP server has taken
  srvMode,       \* the SMTP server reads commands, or the lines after DATA
  net,           \* reply lines the server has sent that have not arrived yet
  buf,           \* reply lines that have arrived and wait for conn.read
  tlsOn,         \* the socket of the SmtpClient is a TLS connection
  cstep,         \* the await of connect / sendEmail / close the client is at
  signLog,       \* history: the calls of signRequest, with what they returned
  aborts,        \* history: number of invocations ended early
  runs           \* history: number of invocations started

vars == <<email_queue, campaigns, profiles, pc, pendingEmails, gi, ei,
          sendResult, replies, affected, ai, pendingCount, counts, response,
          connOpen, dispatched, aborts, runs, handed, html, rewritten,
          request, reply, email_opens, email_clicks, wire, srvAt, srvMode,
          net, buf, tlsOn, cstep, signLog>>

storeVars == <<email_queue, campaigns, profiles>>
budgetVars == <<aborts, runs>>
sendVars == <<dispatched, handed>>
trackVars == <<html, rewritten, request, reply, email_opens, email_clicks>>
wireVars == <<wire, srvAt, srvMode, net, buf, tlsOn, cstep>>
handlerVars == <<storeVars, pc, pendingEmails, gi, ei, sendResult, replies,
                 affected, ai, pendingCount, counts, response, connOpen,
                 sendVars, budgetVars>>
engineVars == <<handlerVars, wireVars, signLog>>

\* ---- helpers ------------------------------------------------------------
Range(s) == {s[k] : k \in 1..Len(s)}

SeqContains(s, x) == \E k \in 1..Len(s) : s[k] = x

\* Set.add / Map.set keep insertion order and ignore a key already present
AddOrdered(s, x) == IF SeqContains(s, x) THEN s ELSE Append(s, x)

Min(a, b) == IF a < b THEN a ELSE b

PendingRows(q) == {m \in Msgs : q[m].status = "pending"}

\* injective sequences over a set, of a given length
RECURSIVE InjSeqs(_, _)
InjSeqs(S, n) ==
  IF n = 0 THEN {<<>>}
  ELSE UNION {{<<x>> \o t : t \in InjSeqs(S \ {x}, n - 1)} : x \in S}

\* the select without its .order('created_at')
FetchPendingUnordered(q) ==
  LET P == PendingRows(q)
      n == Min(BatchLimit, Cardinality(P))
  IN InjSeqs(P, n)

\* .eq('status','pending').order('created_at', asc).limit(BatchLimit):
\* every answer the store may give (rows with equal created_at in any order)
FetchPending(q) ==
  LET P == PendingRows(q)
      n == Min(BatchLimit, Cardinality(P))
  IN {s \in InjSeqs(P, n) :
        /\ \A a, b \in 1..n : a < b => created_at(s[a]) <= created_at(s[b])
        /\ \A m \in P \ Range(s) :
             \A a \in 1..n : created_at(s[a]) <= created_at(m)}

\* the same select when fewer rows are pending than its limit of 50: every
\* pending row, oldest first
FetchAllPending(q) ==
  LET P == PendingRows(q)
      n == Cardinality(P)
  IN {s \in InjSeqs(P, n) :
        \A a, b \in 1..n : a < b => created_at(s[a]) <= created_at(s[b])}

Snapshot(q, s) == [k \in 1..Len(s) |-> [id |-> s[k], attempt_count |-> q[s[k]].attempt_count]]

\* emailsByUser: keys in first-appearance order, each group in batch order
RECURSIVE GroupKeys(_)
GroupKeys(batch) ==
  IF batch = <<>> THEN <<>>
  ELSE LET rest == GroupKeys(SubSeq(batch, 1, Len(batch) - 1))
       IN AddOrdered(rest, user_id(batch[Len(batch)].id))

\* a group with the email put in front of it
GroupUnshift(group, email) == <<email>> \o group

\* group.push(email)
GroupPush(group, email) == Append(group, email)

\* the Map the loop over pendingEmails builds: for each email in turn the
\* group of its user_id, or an empty one, gets the email pushed and is set
RECURSIVE emailsByUser(_)
emailsByUser(batch) ==
  IF batch = <<>> THEN [u \in {} |-> <<>>]
  ELSE LET map == emailsByUser(SubSeq(batch, 1, Len(batch) - 1))
           email == batch[Len(batch)]
           key == user_id(email.id)
           group == IF key \in DOMAIN map THEN map[key] ELSE <<>>
       IN [u \in DOMAIN map \cup {key} |->
             IF u = key THEN GroupPush(group, email) ELSE map[u]]

GroupOf(batch, u) == emailsByUser(batch)[u]

CurUser(i) == GroupKeys(pendingEmails[i])[gi[i]]
CurGroup(i) == GroupOf(pendingEmails[i], CurUser(i))
CurEmail(i) == CurGroup(i)[ei[i]]


\* ---- SmtpClient ---------------------------------------------------------
\* first three characters of the replies a server may give
ReplyCodes == {"220", "235", "250", "334", "354", "454", "535", "550"}

\* connect without the test of the STARTTLS reply
ConnectResultNoStartTlsCheck(enc, tcp, r) ==
  IF ~tcp THEN "SMTP connection failed"
  ELSE IF r.auth # "334" THEN "AUTH LOGIN failed"
  ELSE IF r.user # "334" THEN "Username rejected"
  ELSE IF r.pass # "235" THEN "Authentication failed"
  ELSE "ok"

\* SmtpClient.connect: the message of the Error thrown, or "ok".
\* tcp: the socket could be opened; r: replies to STARTTLS, AUTH LOGIN,
\* username, password
ConnectResult(enc, tcp, r) ==
  IF ~tcp THEN "SMTP connection failed"
  ELSE IF enc # "ssl" /\ r.starttls # "220" THEN "STARTTLS failed"
  ELSE IF r.auth # "334" THEN "AUTH LOGIN failed"
  ELSE IF r.user # "334" THEN "Username rejected"
  ELSE IF r.pass # "235" THEN "Authentication failed"
  ELSE "ok"

\* sendEmail without the test of the RCPT TO reply
SendEmailResultNoRcptCheck(r) ==
  IF r.mail # "250" THEN "MAIL FROM failed"
  ELSE IF r.data # "354" THEN "DATA failed"
  ELSE IF r.content # "250" THEN "Send failed"
  ELSE "ok"

\* SmtpClient.sendEmail: the message of the Error thrown, or "ok".
\* r: replies to MAIL FROM, RCPT TO, DATA and the content
SendEmailResult(r) ==
  IF r.mail # "250" THEN "MAIL FROM failed"
  ELSE IF r.rcpt # "250" THEN "RCPT TO failed"
  ELSE IF r.data # "354" THEN "DATA failed"
  ELSE IF r.content # "250" THEN "Send failed"
  ELSE "ok"

\* replies drawn for a handshake and for a message transaction; no STARTTLS
\* is sent, and so none answered, on an implicit-TLS connection
NoReplies == [none |-> TRUE]

Encryptions == {"ssl", "tls"}

ConnectReplies ==
  [enc \in Encryptions |->
     [starttls : IF enc = "ssl" THEN {"-"} ELSE {"220", "454"},
      auth : {"334", "535"}, user : {"334", "535"}, pass : {"235", "535"}]]

SendReplies ==
  [mail : {"250", "550"}, rcpt : {"250", "550"},
   data : {"354", "550"}, content : {"250", "550"}]

\* the replies of a server that accepts every handshake, and of one that
\* accepts or rejects a message after its content
AcceptingConnectReplies ==
  [enc \in Encryptions |->
     [starttls : IF enc = "ssl" THEN {"-"} ELSE {"220"},
      auth : {"334"}, user : {"334"}, pass : {"235"}]]

ContentReplies ==
  [mail : {"250"}, rcpt : {"250"}, data : {"354"}, content : {"250", "550"}]

\* ---- texts stored in error_log: a text is the sequence of its fragments ---
NullText == <<>>

NotConfiguredText == <<"SMTP not configured. Please set up your SMTP credentials in Settings.">>

\* `SMTP connection error: ${errMsg}`
ConnectionErrorText(errMsg) == <<"SMTP connection error: ", errMsg>>

\* error_log: errMsg
SendErrorText(errMsg) == <<errMsg>>

\* ---- bodies, links and tracking URLs ---------------------------------------
\* A URL is a sequence of tokens; a body is a sequence of segments: text, an
\* anchor start tag (its opening "<a" with the white space after it, the
\* quote of its href, the href value) or the beacon image.
SupabaseUrl == "https://proj.supabase.co"
ShopUrl == <<"https://shop.example/", "page">>
UrlTokens ==
  {"https://shop.example/", "mailto:", "/", "#", "&", "page",
   "track-open", "track-click"}

Text(t) == [tag |-> "text", open |-> "", quote |-> "", url |-> <<>>, text |-> t]
Anchor(open, quote, url) ==
  [tag |-> "a", open |-> open, quote |-> quote, url |-> url, text |-> ""]
Img(url) ==
  [tag |-> "img", open |-> "<img ", quote |-> "\"", url |-> url, text |-> ""]

\* String.prototype.includes / startsWith on a URL, for a word that is a token
Includes(url, word) == \E k \in 1..Len(url) : url[k] = word
StartsWith(url, word) == Len(url) >= 1 /\ url[1] = word

\* encodeURIComponent: the reserved characters of a token are escaped
EncodeToken(t) ==
  CASE t = "https://shop.example/" -> "https%3A%2F%2Fshop.example%2F"
    [] t = "https://proj.supabase.co" -> "https%3A%2F%2Fproj.supabase.co"
    [] t = "/functions/v1/" -> "%2Ffunctions%2Fv1%2F"
    [] t = "mailto:" -> "mailto%3A"
    [] t = "/" -> "%2F"
    [] t = "#" -> "%23"
    [] t = "&" -> "%26"
    [] t = "?id=" -> "%3Fid%3D"
    [] t = "&url=" -> "%26url%3D"
    [] OTHER -> t
encodeURIComponent(url) == [k \in 1..Len(url) |-> EncodeToken(url[k])]

\* the percent-decoding URLSearchParams applies to a value
DecodeToken(t) ==
  CASE t = "https%3A%2F%2Fshop.example%2F" -> "https://shop.example/"
    [] t = "https%3A%2F%2Fproj.supabase.co" -> "https://proj.supabase.co"
    [] t = "%2Ffunctions%2Fv1%2F" -> "/functions/v1/"
    [] t = "mailto%3A" -> "mailto:"
    [] t = "%2F" -> "/"
    [] t = "%23" -> "#"
    [] t = "%26" -> "&"
    [] t = "%3Fid%3D" -> "?id="
    [] t = "%26url%3D" -> "&url="
    [] OTHER -> t
Decode(url) == [k \in 1..Len(url) |-> DecodeToken(url[k])]

\* `${supabaseUrl}/functions/v1/track-open?id=${email.id}`
trackingPixelUrl(supabaseUrl, id) ==
  <<supabaseUrl, "/functions/v1/", "track-open", "?id=", ToString(id)>>

\* `${supabaseUrl}/functions/v1/track-click?id=${emailQueueId}&url=${encodeURIComponent(url)}`
trackingUrl(supabaseUrl, emailQueueId, url) ==
  <<supabaseUrl, "/functions/v1/", "track-click", "?id=",
    ToString(emailQueueId), "&url=">> \o encodeURIComponent(url)

\* the URL addresses the named tracking function of this project
PointsToEndpoint(url, name) ==
  /\ Len(url) >= 3
  /\ url[1] = SupabaseUrl /\ url[2] = "/functions/v1/" /\ url[3] = name

\* /<a\s+([^>]*href=["'])([^"']+)(["'][^>]*)>/gi matches an anchor start tag
\* whose href is quoted and not empty
linkRegex(seg) == seg.tag = "a" /\ seg.quote \in {"\"", "'"} /\ seg.url # <<>>

\* the links the callback returns as they are
SkipsLink(url) ==
  Includes(url, "track-open") \/ Includes(url, "track-click")
    \/ StartsWith(url, "mailto:")

\* the callback that skips nothing
SkipsLinkNever(url) == FALSE

\* the callback's replacement `<a ${before}${trackingUrl}${after}>`
ReplaceLink(seg, emailQueueId, supabaseUrl) ==
  [seg EXCEPT !.open = "<a ",
              !.url = trackingUrl(supabaseUrl, emailQueueId, seg.url)]

rewriteLinksForTracking(body, emailQueueId, supabaseUrl) ==
  [k \in 1..Len(body) |->
     IF linkRegex(body[k]) /\ ~SkipsLink(body[k].url)
     THEN ReplaceLink(body[k], emailQueueId, supabaseUrl)
     ELSE body[k]]

\* email.body + `<img src="${trackingPixelUrl}" ... />`
bodyWithTracking(body, id) ==
  Append(body, Img(trackingPixelUrl(SupabaseUrl, id)))

bodyWithClickTracking(body, id) ==
  rewriteLinksForTracking(bodyWithTracking(body, id), id, SupabaseUrl)

\* email_queue.body of a row
Body(m) == <<Text("hello"), Anchor("<a ", "\"", ShopUrl)>>

\* ---- requests and responses of the tracking endpoints ----------------------
NoRequest == [fn |-> "none", method |-> "", url |-> <<>>]
NoReply == [status |-> 0, body |-> "", location |-> <<>>]
NotRewritten == [id |-> 0, html |-> <<>>]
TRACKING_PIXEL == "GIF89a 1x1"

\* index of the first token of url that is in S, Len(url) + 1 if none
RECURSIVE FirstIn(_, _, _)
FirstIn(url, S, k) ==
  IF k > Len(url) THEN k
  ELSE IF url[k] \in S THEN k
  ELSE FirstIn(url, S, k + 1)

\* new URL(req.url).searchParams.get(name): the value of the parameter,
\* decoded; empty when the parameter is missing
SearchParam(url, name) ==
  LET u == SubSeq(url, 1, FirstIn(url, {"#"}, 1) - 1)
      k == FirstIn(u, {name}, 1)
  IN IF k > Len(u) THEN <<>>
     ELSE Decode(SubSeq(u, k + 1, FirstIn(u, {"&", "&url=", "?id="}, k + 1) - 1))

\* Response.redirect parses its argument without a base URL: TypeError for a
\* URL that is not absolute
IsAbsoluteUrl(url) ==
  StartsWith(url, "https://shop.example/") \/ StartsWith(url, SupabaseUrl)
    \/ StartsWith(url, "mailto:")

\* .from('email_queue').select(...).eq('id', emailQueueId).single(), with any row
FindQueueItemAny(id) == Msgs

\* .from('email_queue').select(...).eq('id', emailQueueId).single()
FindQueueItem(id) == {m \in Msgs : <<ToString(m)>> = id}

Pixel == [status |-> 200, body |-> TRACKING_PIXEL, location |-> <<>>]
Preflight == [status |-> 200, body |-> "", location |-> <<>>]
Redirect(url) == [status |-> 302, body |-> "", location |-> url]
Unhandled == [status |-> 500, body |-> "Internal Server Error", location |-> <<>>]

\* the bodies given to rewriteLinksForTracking
AnchorShapes ==
  {<<"<a ", "\"">>, <<"<a ", "'">>, <<"<a ", "">>, <<"<A ", "\"">>,
   <<"<a\n", "\"">>}
Urls ==
  {<<t>> : t \in UrlTokens}
    \cup {<<t, w>> : t \in {"https://shop.example/", "/"}, w \in UrlTokens}
    \cup {trackingPixelUrl(SupabaseUrl, 1), trackingUrl(SupabaseUrl, 1, ShopUrl)}
Htmls ==
  {<<Text("hello"), Anchor(sh[1], sh[2], u), Text("bye")>> :
     sh \in AnchorShapes, u \in Urls}

\* ---- store updates by id --------------------------------------------------
\* the failure update that stores status sent
UpdateFailedAsSent(q, email, text) ==
  [q EXCEPT ![email.id] =
     [@ EXCEPT !.status = "sent",
               !.attempt_count = email.attempt_count + 1,
               !.error_log = text]]

UpdateFailed(q, email, text) ==
  [q EXCEPT ![email.id] =
     [@ EXCEPT !.status = "failed",
               !.attempt_count = email.attempt_count + 1,
               !.error_log = text]]

\* the update of a sent row without its .eq('id', email.id)
UpdateSentWithoutId(q, email) ==
  [m \in DOMAIN q |->
     [q[m] EXCEPT !.status = "sent",
                  !.attempt_count = email.attempt_count + 1,
                  !.sent_at = TRUE]]

UpdateSent(q, email) ==
  [q EXCEPT ![email.id] =
     [@ EXCEPT !.status = "sent",
               !.attempt_count = email.attempt_count + 1,
               !.sent_at = TRUE]]

\* updateCampaignStatuses: the status chosen from the pending count
NewStatus(pending) == IF pending = 0 THEN "completed" ELSE "sending"

CountPendingOf(q, c) ==
  Cardinality({m \in Msgs : campaign_id(m) = c /\ q[m].status = "pending"})

\* ---- initial state --------------------------------------------------------
NoResponse == [kind |-> "none", processed |-> 0, success |-> 0, errors |-> 0]

\* a profiles row: which SMTP settings are missing (NULL), and the counters
Profile(missing, hour, today) ==
  [smtp_host |-> "smtp_host" \notin missing,
   smtp_username |-> "smtp_username" \notin missing,
   smtp_password |-> "smtp_password" \notin missing,
   hourly_send_limit |-> HourlyLimitDefault,
   daily_send_limit |-> DailyLimitDefault,
   emails_sent_this_hour |-> hour,
   emails_sent_today |-> today]

FreshProfile == Profile({}, 0, 0)

ProfileRows ==
  {FreshProfile, Profile({"smtp_host"}, 0, 0), Profile({"smtp_username"}, 0, 0),
   Profile({"smtp_password"}, 0, 0), Profile({}, HourlyLimitDefault, 0),
   Profile({}, 0, DailyLimitDefault)}

\* the profiles table: at most one account differs from a fresh, configured one
ProfileTables ==
  {[u \in Users |-> IF u = v THEN row ELSE FreshProfile] :
     v \in Users, row \in ProfileRows}

\* a row as inserted, and a row in a given status
NewRow ==
  [status |-> "pending", attempt_count |-> 0, error_log |-> NullText,
   sent_at |-> FALSE]
RowIn(status) ==
  IF status = "pending" THEN NewRow
  ELSE [NewRow EXCEPT !.status = status, !.attempt_count = 1,
                      !.sent_at = (status = "sent")]

\* the columns of a row the engine is given when the campaign is queued
Queued(row, m) ==
  [status |-> row.status, attempt_count |-> row.attempt_count,
   error_log |-> row.error_log, sent_at |-> row.sent_at,
   user_id |-> user_id(m), campaign_id |-> campaign_id(m),
   from_email |-> <<"from", user_id(m)>>, to_email |-> <<"to", m>>,
   subject |-> <<"subject", campaign_id(m)>>, body |-> Body(m)]

InitFrom(Q, C, P, H) ==
  /\ email_queue \in {[m \in Msgs |-> Queued(q[m], m)] : q \in Q}
  /\ campaigns \in C
  /\ profiles \in P
  /\ pc = [i \in Invocations |-> "idle"]
  /\ pendingEmails = [i \in Invocations |-> <<>>]
  /\ gi = [i \in Invocations |-> 1]
  /\ ei = [i \in Invocations |-> 1]
  /\ sendResult = [i \in Invocations |-> "ok"]
  /\ replies = [i \in Invocations |-> NoReplies]
  /\ affected = [i \in Invocations |-> <<>>]
  /\ ai = [i \in Invocations |-> 1]
  /\ pendingCount = [i \in Invocations |-> 0]
  /\ counts = [i \in Invocations |-> [success |-> 0, errors |-> 0]]
  /\ response = [i \in Invocations |-> NoResponse]
  /\ connOpen = [i \in Invocations |-> {}]
  /\ dispatched = [m \in Msgs |-> 0]
  /\ handed = [m \in Msgs |-> {}]
  /\ html \in H
  /\ rewritten = NotRewritten
  /\ request = NoRequest
  /\ reply = NoReply
  /\ email_opens = {}
  /\ email_clicks = {}
  /\ wire = <<>>
  /\ srvAt = 0
  /\ srvMode = "closed"
  /\ net = <<>>
  /\ buf = <<>>
  /\ tlsOn = FALSE
  /\ cstep = "idle"
  /\ signLog = <<>>
  /\ aborts = 0
  /\ runs = 0

InitState(P, H) ==
  InitFrom({[m \in Msgs |-> NewRow]}, {[c \in Campaigns |-> "queued"]}, P, H)

InitWith(P) == InitState(P, {<<>>})

\* the handler returns resp; its locals are gone
Return(i, resp) ==
  /\ pc' = [pc EXCEPT ![i] = "returned"]
  /\ response' = [response EXCEPT ![i] = resp]
  /\ pendingEmails' = [pendingEmails EXCEPT ![i] = <<>>]
  /\ gi' = [gi EXCEPT ![i] = 1]
  /\ ei' = [ei EXCEPT ![i] = 1]
  /\ sendResult' = [sendResult EXCEPT ![i] = "ok"]
  /\ replies' = [replies EXCEPT ![i] = NoReplies]
  /\ affected' = [affected EXCEPT ![i] = <<>>]
  /\ ai' = [ai EXCEPT ![i] = 1]
  /\ pendingCount' = [pendingCount EXCEPT ![i] = 0]
  /\ counts' = [counts EXCEPT ![i] = [success |-> 0, errors |-> 0]]
  /\ connOpen' = [connOpen EXCEPT ![i] = {}]

\* ---- the handler, one action per await ------------------------------------
\* select the pending rows; an empty answer returns at once
Fetch(i, first) ==
  /\ pc[i] = "idle"
  /\ runs < MaxRuns
  /\ runs' = runs + 1
  /\ \E s \in FetchPending(email_queue) :
       IF s = <<>>
       THEN Return(i, [NoResponse EXCEPT !.kind = "empty"])
       ELSE /\ pendingEmails' = [pendingEmails EXCEPT ![i] = Snapshot(email_queue, s)]
            /\ pc' = [pc EXCEPT ![i] = first]
            /\ UNCHANGED <<gi, ei, sendResult, replies, affected, ai,
                           pendingCount, counts, response, connOpen>>
  /\ UNCHANGED <<storeVars, sendVars, trackVars, wireVars, signLog, aborts>>

\* the select when its limit does not cut the batch
FetchWhole(i, first) ==
  /\ pc[i] = "idle"
  /\ runs < MaxRuns
  /\ runs' = runs + 1
  /\ \E s \in FetchAllPending(email_queue) :
       IF s = <<>>
       THEN Return(i, [NoResponse EXCEPT !.kind = "empty"])
       ELSE /\ pendingEmails' = [pendingEmails EXCEPT ![i] = Snapshot(email_queue, s)]
            /\ pc' = [pc EXCEPT ![i] = first]
            /\ UNCHANGED <<gi, ei, sendResult, replies, affected, ai,
                           pendingCount, counts, response, connOpen>>
  /\ UNCHANGED <<storeVars, sendVars, trackVars, wireVars, signLog, aborts>>

\* a failing select after which the pending rows are failed all the same
FetchErrorFailsRows(i) ==
  /\ pc[i] = "idle"
  /\ runs < MaxRuns
  /\ runs' = runs + 1
  /\ Return(i, [NoResponse EXCEPT !.kind = "error"])
  /\ email_queue' = [m \in Msgs |->
                       IF email_queue[m].status = "pending"
                       THEN [email_queue[m] EXCEPT !.status = "failed"]
                       ELSE email_queue[m]]
  /\ UNCHANGED <<campaigns, profiles, sendVars, trackVars, wireVars, signLog, aborts>>

\* the select fails: throw, caught by the outer catch, status 500
FetchError(i) ==
  /\ pc[i] = "idle"
  /\ runs < MaxRuns
  /\ runs' = runs + 1
  /\ Return(i, [NoResponse EXCEPT !.kind = "error"])
  /\ UNCHANGED <<storeVars, sendVars, trackVars, wireVars, signLog, aborts>>

\* after a group: the next group, or the campaign aggregation
AfterGroup(i) ==
  IF gi[i] < Len(GroupKeys(pendingEmails[i]))
  THEN /\ gi' = [gi EXCEPT ![i] = @ + 1]
       /\ pc' = [pc EXCEPT ![i] = "profile"]
  ELSE /\ gi' = gi
       /\ pc' = [pc EXCEPT ![i] = IF affected'[i] # <<>> THEN "count" ELSE "respond"]

\* the config test that looks at smtp_host only
HasSmtpConfigHostOnly(profileError, profile) ==
  ~(profileError \/ ~profile.smtp_host)

\* the branch taken on the answer of the profiles select
HasSmtpConfig(profileError, profile) ==
  ~(profileError \/ ~profile.smtp_host \/ ~profile.smtp_username
      \/ ~profile.smtp_password)

\* read the account's SMTP settings
LoadProfile(i) ==
  /\ pc[i] = "profile"
  /\ \E profileError \in BOOLEAN :
       pc' = [pc EXCEPT ![i] =
                IF HasSmtpConfig(profileError, profiles[CurUser(i)])
                THEN "connect" ELSE "markConfig"]
  /\ UNCHANGED <<storeVars, sendVars, trackVars, wireVars, signLog, budgetVars, pendingEmails, gi, ei,
                 sendResult, replies, affected, ai, pendingCount, counts,
                 response, connOpen>>

\* one iteration of a loop that fails the whole group
FailGroupStep(i, text) ==
  LET email == CurEmail(i) IN
  /\ affected' = [affected EXCEPT ![i] = AddOrdered(@, campaign_id(email.id))]
  /\ email_queue' = UpdateFailed(email_queue, email, text)
  /\ counts' = [counts EXCEPT ![i].errors = @ + 1]
  /\ IF ei[i] < Len(CurGroup(i))
     THEN /\ ei' = [ei EXCEPT ![i] = @ + 1]
          /\ UNCHANGED <<pc, gi, sendResult, replies>>
     ELSE /\ ei' = [ei EXCEPT ![i] = 1]
          /\ sendResult' = [sendResult EXCEPT ![i] = "ok"]
          /\ replies' = [replies EXCEPT ![i] = NoReplies]
          /\ AfterGroup(i)
  /\ UNCHANGED <<campaigns, profiles, sendVars, trackVars, wireVars, signLog, budgetVars, pendingEmails,
                 ai, pendingCount, response, connOpen>>

MarkNotConfigured(i) ==
  /\ pc[i] = "markConfig"
  /\ FailGroupStep(i, NotConfiguredText)

\* client.connect(smtpConfig)
Connect(i, R) ==
  /\ pc[i] = "connect"
  /\ \E tcp \in BOOLEAN, r \in R[smtp_encryption(CurUser(i))] :
       LET res == ConnectResult(smtp_encryption(CurUser(i)), tcp, r) IN
       /\ sendResult' = [sendResult EXCEPT ![i] = res]
       /\ replies' = [replies EXCEPT ![i] = IF tcp THEN r ELSE NoReplies]
       /\ connOpen' = [connOpen EXCEPT ![i] =
                         IF tcp THEN @ \cup {CurUser(i)} ELSE @]
       /\ pc' = [pc EXCEPT ![i] = IF res = "ok" THEN "send" ELSE "markConn"]
  /\ UNCHANGED <<storeVars, sendVars, trackVars, wireVars, signLog, budgetVars, pendingEmails, gi, ei,
                 affected, ai, pendingCount, counts, response>>

MarkConnectFailed(i) ==
  /\ pc[i] = "markConn"
  /\ FailGroupStep(i, ConnectionErrorText(sendResult[i]))

\* client.sendEmail(...) for the current email of the group
SendEmail(i, R) ==
  /\ pc[i] = "send"
  /\ LET email == CurEmail(i) IN
     /\ affected' = [affected EXCEPT ![i] = AddOrdered(@, campaign_id(email.id))]
     /\ \E r \in R :
          /\ sendResult' = [sendResult EXCEPT ![i] = SendEmailResult(r)]
          /\ replies' = [replies EXCEPT ![i] = r]
     /\ dispatched' = [dispatched EXCEPT ![email.id] = @ + 1]
     /\ handed' = [handed EXCEPT ![email.id] = @ \cup {Body(email.id)}]
  /\ UNCHANGED <<trackVars, wireVars, signLog, wireVars, signLog>>
  /\ pc' = [pc EXCEPT ![i] = "record"]
  /\ UNCHANGED <<storeVars, budgetVars, pendingEmails, gi, ei, ai,
                 pendingCount, counts, response, connOpen>>

\* the update that stores the outcome of the send; the answer of the update
\* (stored or not) is not looked at, the counter is increased either way
RecordOutcome(i, Writes) ==
  /\ pc[i] = "record"
  /\ \E stored \in Writes :
       LET email == CurEmail(i) IN
       IF sendResult[i] = "ok"
       THEN /\ email_queue' = IF stored THEN UpdateSent(email_queue, email)
                              ELSE email_queue
            /\ counts' = [counts EXCEPT ![i].success = @ + 1]
       ELSE /\ email_queue' =
                 IF stored
                 THEN UpdateFailed(email_queue, email, SendErrorText(sendResult[i]))
                 ELSE email_queue
            /\ counts' = [counts EXCEPT ![i].errors = @ + 1]
  /\ sendResult' = [sendResult EXCEPT ![i] = "ok"]
  /\ replies' = [replies EXCEPT ![i] = NoReplies]
  /\ IF ei[i] < Len(CurGroup(i))
     THEN /\ ei' = [ei EXCEPT ![i] = @ + 1]
          /\ pc' = [pc EXCEPT ![i] = "send"]
     ELSE /\ ei' = [ei EXCEPT ![i] = 1]
          /\ pc' = [pc EXCEPT ![i] = "close"]
  /\ UNCHANGED <<campaigns, profiles, sendVars, trackVars, wireVars, signLog, budgetVars, pendingEmails,
                 gi, affected, ai, pendingCount, response, connOpen>>

\* finally { await client.close() }
CloseConnection(i) ==
  /\ pc[i] = "close"
  /\ connOpen' = [connOpen EXCEPT ![i] = @ \ {CurUser(i)}]
  /\ affected' = affected
  /\ AfterGroup(i)
  /\ UNCHANGED <<storeVars, sendVars, trackVars, wireVars, signLog, budgetVars, pendingEmails, ei,
                 sendResult, replies, ai, pendingCount, counts, response>>

\* updateCampaignStatuses: count the pending rows of one campaign
CountPending(i) ==
  /\ pc[i] = "count"
  /\ pendingCount' = [pendingCount EXCEPT ![i] =
                        CountPendingOf(email_queue, affected[i][ai[i]])]
  /\ pc' = [pc EXCEPT ![i] = "setCampaign"]
  /\ UNCHANGED <<storeVars, sendVars, trackVars, wireVars, signLog, budgetVars, pendingEmails, gi, ei,
                 sendResult, replies, affected, ai, counts, response, connOpen>>

\* an update that looks at the status the campaign has
SetCampaignStatusToggling(i) ==
  /\ pc[i] = "setCampaign"
  /\ campaigns' = [campaigns EXCEPT ![affected[i][ai[i]]] =
                     IF @ = "sending" THEN "completed"
                     ELSE NewStatus(pendingCount[i])]
  /\ pendingCount' = [pendingCount EXCEPT ![i] = 0]
  /\ IF ai[i] < Len(affected[i])
     THEN /\ ai' = [ai EXCEPT ![i] = @ + 1]
          /\ pc' = [pc EXCEPT ![i] = "count"]
     ELSE /\ ai' = ai
          /\ pc' = [pc EXCEPT ![i] = "respond"]
  /\ UNCHANGED <<email_queue, profiles, sendVars, trackVars, wireVars, signLog, budgetVars, pendingEmails,
                 gi, ei, sendResult, replies, affected, counts, response,
                 connOpen>>

\* updateCampaignStatuses: store the status chosen from the count
SetCampaignStatus(i) ==
  /\ pc[i] = "setCampaign"
  /\ campaigns' = [campaigns EXCEPT ![affected[i][ai[i]]] = NewStatus(pendingCount[i])]
  /\ pendingCount' = [pendingCount EXCEPT ![i] = 0]
  /\ IF ai[i] < Len(affected[i])
     THEN /\ ai' = [ai EXCEPT ![i] = @ + 1]
          /\ pc' = [pc EXCEPT ![i] = "count"]
     ELSE /\ ai' = ai
          /\ pc' = [pc EXCEPT ![i] = "respond"]
  /\ UNCHANGED <<email_queue, profiles, sendVars, trackVars, wireVars, signLog, budgetVars, pendingEmails,
                 gi, ei, sendResult, replies, affected, counts, response,
                 connOpen>>

\* the summary response
Respond(i) ==
  /\ pc[i] = "respond"
  /\ Return(i, [kind |-> "ok", processed |-> Len(pendingEmails[i]),
                success |-> counts[i].success, errors |-> counts[i].errors])
  /\ UNCHANGED <<storeVars, sendVars, trackVars, wireVars, signLog, budgetVars>>

\* the platform ends the invocation at an await (deadline exceeded)
Abort(i) ==
  /\ pc[i] \notin {"idle", "returned"}
  /\ aborts < MaxAborts
  /\ aborts' = aborts + 1
  /\ Return(i, [NoResponse EXCEPT !.kind = "aborted"])
  /\ UNCHANGED <<storeVars, sendVars, trackVars, wireVars, signLog, runs>>

\* the caller has the response; the slot is free for the next invocation
Finish(i) ==
  /\ pc[i] = "returned"
  /\ pc' = [pc EXCEPT ![i] = "idle"]
  /\ response' = [response EXCEPT ![i] = NoResponse]
  /\ UNCHANGED <<storeVars, sendVars, trackVars, wireVars, signLog, budgetVars, pendingEmails, gi, ei,
                 sendResult, replies, affected, ai, pendingCount, counts,
                 connOpen>>

\* answers of an outcome update: the store is up, or it may refuse the write
StoreUp == {TRUE}
StoreFaulty == BOOLEAN

\* ---- one invocation at a time, every server behaviour -------------------
Init == InitWith(ProfileTables)

Next ==
  \E i \in {1} :
    \/ Fetch(i, "profile")
    \/ FetchError(i)
    \/ LoadProfile(i)
    \/ MarkNotConfigured(i)
    \/ Connect(i, ConnectReplies)
    \/ MarkConnectFailed(i)
    \/ SendEmail(i, SendReplies)
    \/ RecordOutcome(i, StoreUp)
    \/ CloseConnection(i)
    \/ CountPending(i)
    \/ SetCampaignStatus(i)
    \/ Respond(i)
    \/ Abort(i)
    \/ Finish(i)

Spec == Init /\ [][Next]_vars

\* ---- overlapping invocations --------------------------------------------
InitOverlap == InitWith({[u \in Users |-> FreshProfile]})

NextOverlap ==
  \E i \in Invocations :
    \/ Fetch(i, "profile")
    \/ FetchError(i)
    \/ LoadProfile(i)
    \/ MarkNotConfigured(i)
    \/ Connect(i, AcceptingConnectReplies)
    \/ MarkConnectFailed(i)
    \/ SendEmail(i, ContentReplies)
    \/ RecordOutcome(i, StoreUp)
    \/ CloseConnection(i)
    \/ CountPending(i)
    \/ SetCampaignStatus(i)
    \/ Respond(i)
    \/ Abort(i)
    \/ Finish(i)

SpecOverlap == InitOverlap /\ [][NextOverlap]_vars

\* ---- one invocation at a time that runs to its end, every server reply ----
NextReplies ==
  \E i \in {1} :
    \/ Fetch(i, "profile")
    \/ FetchError(i)
    \/ LoadProfile(i)
    \/ MarkNotConfigured(i)
    \/ Connect(i, ConnectReplies)
    \/ MarkConnectFailed(i)
    \/ SendEmail(i, SendReplies)
    \/ RecordOutcome(i, StoreUp)
    \/ CloseConnection(i)
    \/ CountPending(i)
    \/ SetCampaignStatus(i)
    \/ Respond(i)
    \/ Finish(i)

SpecReplies == InitOverlap /\ [][NextReplies]_vars

\* ---- batches the limit does not cut, from queues partly sent -------------
InitGrouping ==
  InitFrom([Msgs -> {RowIn("pending"), RowIn("sent")}],
           {[c \in Campaigns |-> "queued"]},
           {[u \in Users |-> FreshProfile]}, {<<>>})

NextGrouping ==
  \E i \in {1} :
    \/ FetchWhole(i, "profile")
    \/ LoadProfile(i)
    \/ Connect(i, ConnectReplies)
    \/ MarkConnectFailed(i)
    \/ SendEmail(i, SendReplies)
    \/ RecordOutcome(i, StoreUp)
    \/ CloseConnection(i)
    \/ CountPending(i)
    \/ SetCampaignStatus(i)
    \/ Respond(i)
    \/ Finish(i)

SpecGrouping == InitGrouping /\ [][NextGrouping]_vars

\* ---- one invocation at a time, outcome updates may fail -------------------
NextStoreFaults ==
  \E i \in {1} :
    \/ Fetch(i, "profile")
    \/ FetchError(i)
    \/ LoadProfile(i)
    \/ MarkNotConfigured(i)
    \/ Connect(i, AcceptingConnectReplies)
    \/ MarkConnectFailed(i)
    \/ SendEmail(i, ContentReplies)
    \/ RecordOutcome(i, StoreFaulty)
    \/ CloseConnection(i)
    \/ CountPending(i)
    \/ SetCampaignStatus(i)
    \/ Respond(i)
    \/ Abort(i)
    \/ Finish(i)

SpecStoreFaults == InitOverlap /\ [][NextStoreFaults]_vars

\* ---- the handler that sends through the SES API ----------------------------
\* [...new Set(pendingEmails.map(e => e.campaign_id))]
RECURSIVE CampaignIdsOf(_)
CampaignIdsOf(batch) ==
  IF batch = <<>> THEN <<>>
  ELSE AddOrdered(CampaignIdsOf(SubSeq(batch, 1, Len(batch) - 1)),
                  campaign_id(batch[Len(batch)].id))

\* bodies of SES responses, as sequences of XML tokens and text
SesErrorBody ==
  <<"<Error>", "<Message>", "Email address is not verified.", "</Message>",
    "</Error>">>
SesEmptyMessageBody == <<"<Error>", "<Message>", "</Message>", "</Error>">>
SesSuccessBody == <<"<MessageId>", "0100-abc", "</MessageId>">>
SesResponses ==
  {[kind |-> "http", ok |-> TRUE, text |-> SesSuccessBody],
   [kind |-> "http", ok |-> FALSE, text |-> SesErrorBody],
   [kind |-> "http", ok |-> FALSE, text |-> SesEmptyMessageBody],
   [kind |-> "http", ok |-> FALSE, text |-> <<"Service Unavailable">>],
   [kind |-> "http", ok |-> FALSE, text |-> <<>>],
   [kind |-> "throws", ok |-> FALSE, text |-> <<"error sending request">>]}

\* responseText.match(/<Message>(.*?)<\/Message>/s): whether it matches, and
\* its first group
HasMessage(text) ==
  LET open == FirstIn(text, {"<Message>"}, 1)
  IN open <= Len(text) /\ FirstIn(text, {"</Message>"}, open + 1) <= Len(text)
MessageText(text) ==
  LET open == FirstIn(text, {"<Message>"}, 1)
  IN SubSeq(text, open + 1, FirstIn(text, {"</Message>"}, open + 1) - 1)

\* sendEmailViaSES that returns the whole response text as the error
sendEmailViaSESRawError(resp) ==
  IF resp.kind = "http" /\ resp.ok
  THEN [success |-> TRUE, error |-> <<>>]
  ELSE [success |-> FALSE, error |-> resp.text]

\* sendEmailViaSES, from the answer of fetch to its result
sendEmailViaSES(resp) ==
  IF resp.kind = "throws" THEN [success |-> FALSE, error |-> resp.text]
  ELSE IF ~resp.ok
  THEN [success |-> FALSE,
        error |-> IF HasMessage(resp.text) THEN MessageText(resp.text)
                  ELSE resp.text]
  ELSE [success |-> TRUE, error |-> <<>>]

\* result.error || 'Unknown SES error'
SesErrorMessage(result) ==
  IF result.error # <<>> THEN result.error ELSE <<"Unknown SES error">>

SesEmail(i) == pendingEmails[i][ei[i]]

\* AWS credentials are not in the environment: throw before any store call
CredentialsMissing(i) ==
  /\ pc[i] = "idle"
  /\ runs < MaxRuns
  /\ runs' = runs + 1
  /\ Return(i, [NoResponse EXCEPT !.kind = "error"])
  /\ UNCHANGED <<storeVars, sendVars, trackVars, wireVars, signLog, aborts>>

\* inject tracking, call the SES API, keep its answer
SesSend(i, R) ==
  /\ pc[i] = "sesSend"
  /\ \E resp \in R : replies' = [replies EXCEPT ![i] = resp]
  /\ dispatched' = [dispatched EXCEPT ![SesEmail(i).id] = @ + 1]
  /\ handed' = [handed EXCEPT ![SesEmail(i).id] =
                  @ \cup {bodyWithClickTracking(Body(SesEmail(i).id), SesEmail(i).id)}]
  /\ pc' = [pc EXCEPT ![i] = "sesRecord"]
  /\ UNCHANGED <<storeVars, trackVars, wireVars, signLog, budgetVars, pendingEmails, gi, ei,
                 sendResult, affected, ai, pendingCount, counts, response,
                 connOpen>>

\* store the outcome: sent, or (also when the sent update is refused) failed
SesRecord(i, Writes) ==
  /\ pc[i] = "sesRecord"
  /\ LET email == SesEmail(i)
         result == sendEmailViaSES(replies[i])
     IN \E stored \in Writes, storedFailed \in Writes :
          IF result.success /\ stored
          THEN /\ email_queue' = UpdateSent(email_queue, email)
               /\ counts' = [counts EXCEPT ![i].success = @ + 1]
          ELSE /\ counts' = [counts EXCEPT ![i].errors = @ + 1]
               /\ email_queue' =
                    IF ~storedFailed THEN email_queue
                    ELSE UpdateFailed(email_queue, email,
                           IF result.success THEN <<"Failed to update status: ">>
                           ELSE SesErrorMessage(result))
  /\ replies' = [replies EXCEPT ![i] = NoReplies]
  /\ IF ei[i] < Len(pendingEmails[i])
     THEN /\ ei' = [ei EXCEPT ![i] = @ + 1]
          /\ pc' = [pc EXCEPT ![i] = "sesSend"]
          /\ affected' = affected
     ELSE /\ ei' = [ei EXCEPT ![i] = 1]
          /\ affected' = [affected EXCEPT ![i] = CampaignIdsOf(pendingEmails[i])]
          /\ pc' = [pc EXCEPT ![i] = "count"]
  /\ UNCHANGED <<campaigns, profiles, sendVars, trackVars, wireVars, signLog, budgetVars,
                 pendingEmails, gi, sendResult, ai, pendingCount, response,
                 connOpen>>

NextSes ==
  \E i \in {1} :
    \/ Fetch(i, "sesSend")
    \/ FetchError(i)
    \/ CredentialsMissing(i)
    \/ SesSend(i, SesResponses)
    \/ SesRecord(i, StoreUp)
    \/ CountPending(i)
    \/ SetCampaignStatus(i)
    \/ Respond(i)
    \/ Abort(i)
    \/ Finish(i)

SpecSes == InitOverlap /\ [][NextSes]_vars

\* ---- the SES handler without tracking (second version of part_007) ---------
\* .update({ status: 'sent', attempt_count: ... }): no sent_at in the payload
UpdateSentSesV2(q, email) ==
  [q EXCEPT ![email.id] =
     [@ EXCEPT !.status = "sent",
               !.attempt_count = email.attempt_count + 1]]

\* sendEmailViaSES of that version, from the answer of fetch to its result
sendEmailViaSESv2(resp) ==
  IF resp.kind = "throws" THEN [success |-> FALSE, error |-> resp.text]
  ELSE IF ~resp.ok
  THEN [success |-> FALSE,
        error |-> IF HasMessage(resp.text) THEN MessageText(resp.text)
                  ELSE <<"SES Error ", "status", ": ">> \o resp.text]
  ELSE [success |-> TRUE, error |-> <<>>]

\* call the SES API with the stored body, keep its answer
SesV2Send(i, R) ==
  /\ pc[i] = "ses2Send"
  /\ \E resp \in R : replies' = [replies EXCEPT ![i] = resp]
  /\ dispatched' = [dispatched EXCEPT ![SesEmail(i).id] = @ + 1]
  /\ handed' = [handed EXCEPT ![SesEmail(i).id] = @ \cup {Body(SesEmail(i).id)}]
  /\ pc' = [pc EXCEPT ![i] = "ses2Record"]
  /\ UNCHANGED <<storeVars, trackVars, wireVars, signLog, budgetVars, pendingEmails, gi, ei,
                 sendResult, affected, ai, pendingCount, counts, response,
                 connOpen>>

\* store the outcome; error_log: result.error
SesV2Record(i) ==
  /\ pc[i] = "ses2Record"
  /\ LET email == SesEmail(i)
         result == sendEmailViaSESv2(replies[i])
     IN IF result.success
        THEN /\ email_queue' = UpdateSentSesV2(email_queue, email)
             /\ counts' = [counts EXCEPT ![i].success = @ + 1]
        ELSE /\ counts' = [counts EXCEPT ![i].errors = @ + 1]
             /\ email_queue' = UpdateFailed(email_queue, email, result.error)
  /\ replies' = [replies EXCEPT ![i] = NoReplies]
  /\ IF ei[i] < Len(pendingEmails[i])
     THEN /\ ei' = [ei EXCEPT ![i] = @ + 1]
          /\ pc' = [pc EXCEPT ![i] = "ses2Send"]
     ELSE /\ ei' = [ei EXCEPT ![i] = 1]
          /\ pc' = [pc EXCEPT ![i] = "respond"]
  /\ UNCHANGED <<campaigns, profiles, sendVars, trackVars, wireVars, signLog, budgetVars,
                 pendingEmails, gi, sendResult, affected, ai, pendingCount,
                 response, connOpen>>

NextSesV2 ==
  \E i \in {1} :
    \/ Fetch(i, "ses2Send")
    \/ FetchError(i)
    \/ CredentialsMissing(i)
    \/ SesV2Send(i, SesResponses)
    \/ SesV2Record(i)
    \/ Respond(i)
    \/ Finish(i)

SpecSesV2 == InitOverlap /\ [][NextSesV2]_vars

\* ---- AWS Signature Version 4 ----------------------------------------------
\* A string is the sequence of its parts. Digests are symbolic: two digests
\* are equal exactly when they were computed from equal inputs.
sha256(message) == <<"sha256(">> \o message \o <<")">>
hmacSha256(key, message) == <<"hmac(">> \o key \o <<",">> \o message \o <<")">>
hmacSha256Hex(key, message) == <<"hex(">> \o hmacSha256(key, message) \o <<")">>

\* now.toISOString().replace(/[:-]|\.\d{3}/g, ''): the milliseconds are dropped
AmzDate(now) == <<now.date, "T", now.time, "Z">>

\* signRequest that also signs a number taken from the calls made so far
signRequestWithCallNumber(method, url, headers, body, accessKeyId, secretAccessKey, region, service, now) ==
  LET amzDate == AmzDate(now)
      credentialScope == <<now.date, "/", region, "/", service, "/aws4_request">>
      signature == hmacSha256Hex(<<"AWS4", secretAccessKey>>,
                                 amzDate \o <<ToString(Len(signLog))>>)
  IN [k \in DOMAIN headers \cup {"Host", "X-Amz-Date", "Authorization"} |->
        CASE k = "Host" -> <<url.host>>
          [] k = "X-Amz-Date" -> amzDate
          [] k = "Authorization" ->
               <<"AWS4-HMAC-SHA256", " Credential=", accessKeyId, "/">>
                 \o credentialScope \o <<", Signature=">> \o signature
          [] OTHER -> headers[k]]

\* signRequest; now is the value of new Date() it reads
signRequest(method, url, headers, body, accessKeyId, secretAccessKey, region, service, now) ==
  LET host == url.host
      path == url.pathname
      amzDate == AmzDate(now)
      dateStamp == <<now.date>>
      canonicalHeaders ==
        <<"content-type:">> \o headers["Content-Type"] \o <<"\nhost:", host>>
          \o <<"\nx-amz-date:">> \o amzDate \o <<"\n">>
      signedHeaders == <<"content-type;host;x-amz-date">>
      bodyHash == sha256(body)
      canonicalRequest ==
        <<method, "\n", path, "\n\n">> \o canonicalHeaders \o <<"\n">>
          \o signedHeaders \o <<"\n">> \o bodyHash
      algorithm == <<"AWS4-HMAC-SHA256">>
      credentialScope ==
        dateStamp \o <<"/", region, "/", service, "/aws4_request">>
      canonicalRequestHash == sha256(canonicalRequest)
      stringToSign ==
        algorithm \o <<"\n">> \o amzDate \o <<"\n">> \o credentialScope
          \o <<"\n">> \o canonicalRequestHash
      kDate == hmacSha256(<<"AWS4", secretAccessKey>>, dateStamp)
      kRegion == hmacSha256(kDate, <<region>>)
      kService == hmacSha256(kRegion, <<service>>)
      kSigning == hmacSha256(kService, <<"aws4_request">>)
      signature == hmacSha256Hex(kSigning, stringToSign)
      authorizationHeader ==
        algorithm \o <<" Credential=", accessKeyId, "/">> \o credentialScope
          \o <<", SignedHeaders=">> \o signedHeaders
          \o <<", Signature=">> \o signature
  IN [k \in DOMAIN headers \cup {"Host", "X-Amz-Date", "Authorization"} |->
        CASE k = "Host" -> <<host>>
          [] k = "X-Amz-Date" -> amzDate
          [] k = "Authorization" -> authorizationHeader
          [] OTHER -> headers[k]]

\* the arguments of the calls that are compared
SesEndpoint(region) ==
  [host |-> "email." \o region \o ".amazonaws.com", pathname |-> "/",
   search |-> ""]
SignInputs ==
  [method : {"POST"},
   url : {SesEndpoint("us-east-1")},
   headers : {[k \in {"Content-Type"} |-> <<ct>>] :
                ct \in {"application/x-www-form-urlencoded", "text/plain"}},
   body : {<<"Action=SendEmail", "&Source=a">>, <<"Action=SendEmail", "&Source=b">>},
   accessKeyId : {"AKIA1"},
   secretAccessKey : {"secret1", "secret2"},
   region : {"us-east-1", "eu-west-1"},
   service : {"ses"}]

\* values of new Date(): two instants of one second, and another day
Clock ==
  {[date |-> "20240101", time |-> "120000", ms |-> 0],
   [date |-> "20240101", time |-> "120000", ms |-> 500],
   [date |-> "20240102", time |-> "120000", ms |-> 0]}

\* sendEmailViaSES signs a request
SignCall ==
  /\ Len(signLog) < MaxSignCalls
  /\ \E input \in SignInputs, now \in Clock :
       signLog' = Append(signLog,
         [input |-> input, now |-> now,
          signed |-> signRequest(input.method, input.url, input.headers, input.body,
                                 input.accessKeyId, input.secretAccessKey,
                                 input.region, input.service, now)])
  /\ UNCHANGED <<handlerVars, wireVars, trackVars>>

NextSign == SignCall

SpecSign == InitOverlap /\ [][NextSign]_vars

\* ---- a server that accepts the connection and then says nothing -----------
\* readResponse awaits conn.read with no deadline: when the server sends
\* nothing more, the await in connect or in sendEmail never resolves
ServerSilent(i) ==
  /\ pc[i] \in {"connect", "send"}
  /\ connOpen' = [connOpen EXCEPT ![i] = @ \cup {CurUser(i)}]
  /\ pc' = [pc EXCEPT ![i] = "reading"]
  /\ UNCHANGED <<storeVars, sendVars, trackVars, wireVars, signLog, budgetVars, pendingEmails,
                 gi, ei, sendResult, replies, affected, ai, pendingCount,
                 counts, response>>

\* the steps the runtime takes whenever the awaited answer is there
HandlerStep(i) ==
  \/ LoadProfile(i)
  \/ MarkNotConfigured(i)
  \/ Connect(i, AcceptingConnectReplies)
  \/ MarkConnectFailed(i)
  \/ SendEmail(i, ContentReplies)
  \/ RecordOutcome(i, StoreUp)
  \/ CloseConnection(i)
  \/ CountPending(i)
  \/ SetCampaignStatus(i)
  \/ Respond(i)

NextSilent ==
  \E i \in {1} :
    \/ Fetch(i, "profile")
    \/ FetchError(i)
    \/ HandlerStep(i)
    \/ ServerSilent(i)
    \/ Finish(i)

\* ---- invocations that keep being run and are never ended early -----------
\* the replies of a server that accepts every message
AcceptedReplies ==
  [mail : {"250"}, rcpt : {"250"}, data : {"354"}, content : {"250"}]

\* an invocation the scheduler starts when no row is pending, as it does for
\* ever: the select answers no row and the handler returns at once
FetchNothing(i) ==
  /\ pc[i] = "idle"
  /\ PendingRows(email_queue) = {}
  /\ Return(i, [NoResponse EXCEPT !.kind = "empty"])
  /\ UNCHANGED <<storeVars, sendVars, trackVars, wireVars, signLog, budgetVars>>

\* a step of invocation i: the scheduler starts it, or it goes on
DrainStep(i) ==
  \/ Fetch(i, "profile")
  \/ FetchNothing(i)
  \/ LoadProfile(i)
  \/ MarkNotConfigured(i)
  \/ Connect(i, AcceptingConnectReplies)
  \/ MarkConnectFailed(i)
  \/ SendEmail(i, AcceptedReplies)
  \/ RecordOutcome(i, StoreUp)
  \/ CloseConnection(i)
  \/ CountPending(i)
  \/ SetCampaignStatus(i)
  \/ Respond(i)
  \/ Finish(i)

NextDrain == \E i \in Invocations : DrainStep(i)

\* every invocation that can take a step takes one
SpecDrain ==
  InitOverlap /\ [][NextDrain]_vars /\ \A i \in Invocations : WF_vars(DrainStep(i))

\* ---- one invocation at a time that runs to its end, every profiles table --
NextProfiles ==
  \E i \in {1} :
    \/ Fetch(i, "profile")
    \/ FetchError(i)
    \/ HandlerStep(i)
    \/ Finish(i)

SpecProfiles == Init /\ [][NextProfiles]_vars

\* every await whose answer arrives is resumed
SpecSilent ==
  InitOverlap /\ [][NextSilent]_vars /\ WF_vars(HandlerStep(1))

\* ---- the SmtpClient on its socket, await by await ---------------------------
\* A reply line: its code, whether it is the last line of its reply ("250 "
\* and not "250-"), and the element of wire it answers (0 for the greeting).
Line(code, last, of) == [code |-> code, last |-> last, of |-> of]

\* a reply of n lines
ReplyOf(code, n, of) == [k \in 1..n |-> Line(code, k = n, of)]

\* cmd + '\r\n' as sendCommand writes it; ans is the code the server gives it
Written(cmd, tls, msg, lines) ==
  [cmd |-> cmd, tls |-> tls, msg |-> msg, lines |-> lines, ans |-> "none",
   end |-> 0]

\* a test that every reply passes
StartsWithAnyCode(chunk, code) == chunk # <<>>

\* resp.startsWith(code) on what one conn.read returned
StartsWithCode(chunk, code) == chunk # <<>> /\ chunk[1].code = code

\* lastLine.length >= 4 && lastLine[3] === ' '
EndsReply(chunk) == chunk # <<>> /\ chunk[Len(chunk)].last

\* headers.join('\r\n') + '\r\n\r\n' + qpBody + '\r\n.', as lines
emailContent(body) == <<"headers", "">> \o body \o <<".">>

\* email_queue.body of the rows as lines: without and with a line that is a dot
PlainBodies == [m \in Msgs |-> <<"<p>hello</p>">>]
DottedBodies == [m \in Msgs |-> <<"<p>see", ".", "you</p>">>]

\* the codes a server may answer a command with
AnswerCodes ==
  [c \in {"EHLO", "STARTTLS", "AUTH LOGIN", "username", "password",
          "MAIL FROM", "RCPT TO", "DATA", "content", "QUIT"} |->
     CASE c = "EHLO" -> {"250"}
       [] c = "STARTTLS" -> {"220", "454"}
       [] c = "AUTH LOGIN" -> {"334", "535"}
       [] c = "username" -> {"334", "535"}
       [] c = "password" -> {"235", "535"}
       [] c = "MAIL FROM" -> {"250", "550"}
       [] c = "RCPT TO" -> {"250", "550"}
       [] c = "DATA" -> {"354", "550"}
       [] c = "content" -> {"250", "550"}
       [] OTHER -> {"221"}]

\* a server that accepts the handshake and every command before the content
AcceptingCodes ==
  [c \in DOMAIN AnswerCodes |->
     IF c = "content" THEN {"250", "550"}
     ELSE {CHOOSE code \in AnswerCodes[c] : code \in {"220", "221", "235", "250", "334", "354"}}]

\* the number of lines a reply may have: any reply but the 334 challenge and
\* the 354 go-ahead may be a multi-line reply
Codes3 ==
  {"220", "221", "235", "250", "334", "354", "454", "500", "503", "535", "550"}
MultiLine == [code \in Codes3 |-> IF code \in {"334", "354"} THEN {1} ELSE {1, 2}]
SingleLine == [code \in Codes3 |-> {1}]

NoStep == [next |-> "idle", write |-> "", upgrade |-> FALSE, result |-> ""]

\* the statement after an await of readResponse / readMultilineResponse in
\* connect and sendEmail: the command written next, or the Error thrown
ClientStep(at, enc, chunk) ==
  CASE at = "greeting" ->
         [NoStep EXCEPT !.next = IF enc = "ssl" THEN "ehlo2" ELSE "ehlo1",
                        !.write = "EHLO"]
    [] at = "ehlo1" ->
         IF EndsReply(chunk)
         THEN [NoStep EXCEPT !.next = "starttls", !.write = "STARTTLS"]
         ELSE [NoStep EXCEPT !.next = "ehlo1"]
    [] at = "starttls" ->
         IF StartsWithCode(chunk, "220")
         THEN [NoStep EXCEPT !.next = "ehlo2", !.write = "EHLO", !.upgrade = TRUE]
         ELSE [NoStep EXCEPT !.result = "STARTTLS failed"]
    [] at = "ehlo2" ->
         IF EndsReply(chunk)
         THEN [NoStep EXCEPT !.next = "auth", !.write = "AUTH LOGIN"]
         ELSE [NoStep EXCEPT !.next = "ehlo2"]
    [] at = "auth" ->
         IF StartsWithCode(chunk, "334")
         THEN [NoStep EXCEPT !.next = "user", !.write = "username"]
         ELSE [NoStep EXCEPT !.result = "AUTH LOGIN failed"]
    [] at = "user" ->
         IF StartsWithCode(chunk, "334")
         THEN [NoStep EXCEPT !.next = "pass", !.write = "password"]
         ELSE [NoStep EXCEPT !.result = "Username rejected"]
    [] at = "pass" ->
         IF StartsWithCode(chunk, "235")
         THEN [NoStep EXCEPT !.result = "ok"]
         ELSE [NoStep EXCEPT !.result = "Authentication failed"]
    [] at = "mail" ->
         IF StartsWithCode(chunk, "250")
         THEN [NoStep EXCEPT !.next = "rcpt", !.write = "RCPT TO"]
         ELSE [NoStep EXCEPT !.result = "MAIL FROM failed"]
    [] at = "rcpt" ->
         IF StartsWithCode(chunk, "250")
         THEN [NoStep EXCEPT !.next = "data", !.write = "DATA"]
         ELSE [NoStep EXCEPT !.result = "RCPT TO failed"]
    [] at = "data" ->
         IF StartsWithCode(chunk, "354")
         THEN [NoStep EXCEPT !.next = "content", !.write = "content"]
         ELSE [NoStep EXCEPT !.result = "DATA failed"]
    [] OTHER ->
         IF StartsWithCode(chunk, "250")
         THEN [NoStep EXCEPT !.result = "ok"]
         ELSE [NoStep EXCEPT !.result = "Send failed"]

\* the socket is dropped: nothing of it is looked at again
DropSocket ==
  /\ wire' = <<>>
  /\ srvAt' = 0
  /\ srvMode' = "closed"
  /\ net' = <<>>
  /\ buf' = <<>>
  /\ tlsOn' = FALSE
  /\ cstep' = "idle"

\* Deno.connect / Deno.connectTls; the server greets with 220
WireOpen(i, Lines, whole) ==
  /\ pc[i] = "connect"
  /\ cstep = "idle"
  /\ srvMode = "closed"
  /\ \E tcp \in BOOLEAN, n \in Lines["220"] :
       IF tcp
       THEN /\ connOpen' = [connOpen EXCEPT ![i] = @ \cup {CurUser(i)}]
            /\ wire' = <<>>
            /\ srvAt' = 0
            /\ srvMode' = "cmd"
            /\ tlsOn' = (smtp_encryption(CurUser(i)) = "ssl")
            /\ cstep' = "greeting"
            /\ IF whole THEN buf' = ReplyOf("220", n, 0) /\ net' = net
               ELSE net' = ReplyOf("220", n, 0) /\ buf' = buf
            /\ UNCHANGED <<pc, sendResult>>
       ELSE /\ sendResult' = [sendResult EXCEPT ![i] = "SMTP connection failed"]
            /\ pc' = [pc EXCEPT ![i] = "markConn"]
            /\ UNCHANGED <<connOpen, wireVars>>
  /\ UNCHANGED <<storeVars, sendVars, trackVars, signLog, budgetVars,
                 pendingEmails, gi, ei, replies, affected, ai, pendingCount,
                 counts, response>>

\* an await of conn.read in connect or sendEmail resolves with all that has
\* arrived, and the client runs to its next await
WireRead(i, bodies) ==
  /\ pc[i] \in {"connect", "send"}
  /\ cstep # "idle"
  /\ buf # <<>>
  /\ LET step == ClientStep(cstep, smtp_encryption(CurUser(i)), buf)
         m == CurEmail(i).id
         tls == tlsOn \/ step.upgrade
     IN IF step.result # "" /\ pc[i] = "connect" /\ step.result # "ok"
        THEN /\ sendResult' = [sendResult EXCEPT ![i] = step.result]
             /\ pc' = [pc EXCEPT ![i] = "markConn"]
             /\ DropSocket
        ELSE /\ buf' = <<>>
             /\ cstep' = step.next
             /\ tlsOn' = tls
             /\ wire' =
                  IF step.write = "" THEN wire
                  ELSE Append(wire,
                         Written(step.write, tls,
                                 IF pc[i] = "send" THEN m ELSE 0,
                                 IF step.write = "content"
                                 THEN emailContent(bodies[m]) ELSE <<>>))
             /\ IF step.result = "" THEN UNCHANGED <<pc, sendResult>>
                ELSE /\ sendResult' = [sendResult EXCEPT ![i] = step.result]
                     /\ pc' = [pc EXCEPT ![i] =
                                 IF pc[i] = "connect" THEN "send" ELSE "record"]
             /\ UNCHANGED <<srvAt, srvMode, net>>
  /\ UNCHANGED <<storeVars, sendVars, trackVars, signLog, budgetVars,
                 pendingEmails, gi, ei, replies, affected, ai, pendingCount,
                 counts, response, connOpen>>

\* client.sendEmail(...) up to its first await of a reply
WireMailFrom(i) ==
  /\ pc[i] = "send"
  /\ cstep = "idle"
  /\ LET email == CurEmail(i) IN
     /\ affected' = [affected EXCEPT ![i] = AddOrdered(@, campaign_id(email.id))]
     /\ dispatched' = [dispatched EXCEPT ![email.id] = @ + 1]
     /\ handed' = [handed EXCEPT ![email.id] = @ \cup {Body(email.id)}]
     /\ wire' = Append(wire, Written("MAIL FROM", tlsOn, email.id, <<>>))
  /\ cstep' = "mail"
  /\ UNCHANGED <<storeVars, trackVars, signLog, budgetVars, pendingEmails, gi,
                 ei, sendResult, replies, ai, pendingCount, counts, response,
                 connOpen, pc, srvAt, srvMode, net, buf, tlsOn>>

\* client.close() up to its await of the reply to QUIT
WireQuit(i) ==
  /\ pc[i] = "close"
  /\ cstep = "idle"
  /\ wire' = Append(wire, Written("QUIT", tlsOn, 0, <<>>))
  /\ cstep' = "quit"
  /\ UNCHANGED <<handlerVars, trackVars, signLog, srvAt, srvMode, net, buf,
                 tlsOn>>

\* client.close() from the reply it reads: the socket is closed
WireClose(i) ==
  /\ pc[i] = "close"
  /\ cstep = "quit"
  /\ buf # <<>> \/ srvMode = "lost"
  /\ DropSocket
  /\ connOpen' = [connOpen EXCEPT ![i] = @ \ {CurUser(i)}]
  /\ affected' = affected
  /\ AfterGroup(i)
  /\ UNCHANGED <<storeVars, sendVars, trackVars, signLog, budgetVars,
                 pendingEmails, ei, sendResult, replies, ai, pendingCount,
                 counts, response>>

\* The mail transaction of the server: with no sender accepted ("cmd") RCPT TO
\* is a bad sequence of commands (503), and so is DATA with no recipient
\* accepted; MAIL FROM inside a transaction is refused with 503 or starts a
\* new one.
ServerCodes(Codes, mode, cmd) ==
  CASE cmd = "MAIL FROM" ->
         IF mode = "cmd" THEN Codes[cmd] ELSE Codes[cmd] \cup {"503"}
    [] cmd = "RCPT TO" ->
         IF mode \in {"mail", "rcpt"} THEN Codes[cmd] ELSE {"503"}
    [] cmd = "DATA" -> IF mode = "rcpt" THEN Codes[cmd] ELSE {"503"}
    [] OTHER -> Codes[cmd]

ServerMode(mode, cmd, code) ==
  CASE cmd = "MAIL FROM" /\ code = "250" -> "mail"
    [] cmd = "RCPT TO" /\ code = "250" -> "rcpt"
    [] cmd = "DATA" /\ code = "354" -> "data"
    [] cmd = "EHLO" -> "cmd"
    [] OTHER -> mode

\* the lines a server sends reach the client at once, or are under way
Send(lines, whole) ==
  IF whole THEN buf' = buf \o lines /\ net' = net
  ELSE net' = net \o lines /\ buf' = buf

\* the SMTP server takes the next element the client wrote. After 354 it
\* reads lines up to the first line that is a dot and answers them; what
\* follows that line it reads as commands, which it does not know
ServerTake(Codes, Lines, whole) ==
  /\ srvMode \notin {"closed", "lost", "silent"}
  /\ srvAt < Len(wire)
  /\ srvAt' = srvAt + 1
  /\ LET k == srvAt + 1
         e == wire[k]
     IN IF srvMode = "data"
        THEN IF e.cmd = "content"
             THEN LET end == FirstIn(e.lines, {"."}, 1) IN
                  \E code \in Codes["content"] : \E n \in Lines[code] :
                    /\ wire' = [wire EXCEPT ![k].ans = code, ![k].end = end]
                    /\ srvMode' = "cmd"
                    /\ Send(ReplyOf(code, n, k)
                              \o [j \in 1..(Len(e.lines) - end) |->
                                    Line("500", TRUE, k)], whole)
             ELSE /\ wire' = [wire EXCEPT ![k].ans = "data"]
                  /\ UNCHANGED <<srvMode, net, buf>>
        ELSE IF e.cmd = "content"
             THEN /\ wire' = [wire EXCEPT ![k].ans = "500"]
                  /\ srvMode' = srvMode
                  /\ Send(ReplyOf("500", 1, k), whole)
             ELSE \E code \in ServerCodes(Codes, srvMode, e.cmd) :
                  \E n \in Lines[code] :
                    /\ wire' = [wire EXCEPT ![k].ans = code]
                    /\ srvMode' = ServerMode(srvMode, e.cmd, code)
                    /\ Send(ReplyOf(code, n, k), whole)
  /\ UNCHANGED <<handlerVars, trackVars, signLog, tlsOn, cstep>>

\* some of the lines under way arrive
Deliver ==
  /\ net # <<>>
  /\ \E k \in 1..Len(net) :
       /\ buf' = buf \o SubSeq(net, 1, k)
       /\ net' = SubSeq(net, k + 1, Len(net))
  /\ UNCHANGED <<handlerVars, trackVars, signLog, wire, srvAt, srvMode, tlsOn,
                 cstep>>

\* the handler around the socket
WireHandler(i) ==
  \/ Fetch(i, "profile")
  \/ FetchError(i)
  \/ LoadProfile(i)
  \/ MarkNotConfigured(i)
  \/ MarkConnectFailed(i)
  \/ WireMailFrom(i)
  \/ RecordOutcome(i, StoreUp)
  \/ WireQuit(i)
  \/ WireClose(i)
  \/ CountPending(i)
  \/ SetCampaignStatus(i)
  \/ Respond(i)
  \/ Finish(i)

\* every reply, of one or two lines, arrives whole before the client reads
NextWire ==
  \/ \E i \in {1} :
       \/ WireHandler(i)
       \/ WireOpen(i, MultiLine, TRUE)
       \/ WireRead(i, PlainBodies)
  \/ ServerTake(AnswerCodes, MultiLine, TRUE)

SpecWire == InitOverlap /\ [][NextWire]_vars

\* the lines of a reply arrive one by one or together, as the network has it
NextFraming ==
  \/ \E i \in {1} :
       \/ WireHandler(i)
       \/ WireOpen(i, MultiLine, FALSE)
       \/ WireRead(i, PlainBodies)
  \/ ServerTake(AnswerCodes, MultiLine, FALSE)
  \/ Deliver

SpecFraming == InitOverlap /\ [][NextFraming]_vars

\* readResponse when conn.read resolves with null
ClosedResult == "Connection closed"

\* the connection is lost after the handshake, between two messages or inside
\* a transaction: the server takes and answers nothing more
\* "lost": the end of the connection reaches the client, conn.read resolves
\* with null; "silent": nothing reaches the client any more
Lose ==
  /\ srvMode \notin {"closed", "lost", "silent"}
  /\ \E i \in {1} : pc[i] \in {"send", "record"}
  /\ srvMode' \in {"lost", "silent"}
  /\ UNCHANGED <<handlerVars, trackVars, signLog, wire, srvAt, net, buf, tlsOn,
                 cstep>>

\* an await of conn.read in sendEmail on the lost connection, with nothing
\* left to read: readResponse throws and sendEmail with it
WireLost(i) ==
  /\ pc[i] = "send"
  /\ cstep # "idle"
  /\ srvMode = "lost"
  /\ buf = <<>> /\ net = <<>>
  /\ sendResult' = [sendResult EXCEPT ![i] = ClosedResult]
  /\ pc' = [pc EXCEPT ![i] = "record"]
  /\ cstep' = "idle"
  /\ UNCHANGED <<storeVars, sendVars, trackVars, signLog, budgetVars,
                 pendingEmails, gi, ei, replies, affected, ai, pendingCount,
                 counts, response, connOpen, wire, srvAt, srvMode, net, buf,
                 tlsOn>>

\* the steps of the client on the socket and of the handler around it
ClientSteps ==
  \E i \in {1} :
    \/ WireHandler(i)
    \/ WireOpen(i, SingleLine, TRUE)
    \/ WireRead(i, PlainBodies)
    \/ WireLost(i)

\* replies arrive whole and in one line; the connection may be lost
NextLoss ==
  \/ ClientSteps
  \/ ServerTake(AnswerCodes, SingleLine, TRUE)
  \/ Lose

\* every await whose answer arrives is resumed; a server that is there answers
SpecLoss ==
  /\ InitOverlap
  /\ [][NextLoss]_vars
  /\ WF_vars(ClientSteps)
  /\ WF_vars(ServerTake(AnswerCodes, SingleLine, TRUE))

\* replies arrive whole; bodies hold a line that is a single dot
NextDots ==
  \/ \E i \in {1} :
       \/ WireHandler(i)
       \/ WireOpen(i, SingleLine, TRUE)
       \/ WireRead(i, DottedBodies)
  \/ ServerTake(AcceptingCodes, SingleLine, TRUE)

SpecDots == InitOverlap /\ [][NextDots]_vars

\* ---- updateCampaignStatuses on its own, run again on the same campaigns ----
CampaignIdLists == {<<"c1">>, <<"c2">>, <<"c1", "c2">>, <<"c2", "c1">>}

\* updateCampaignStatuses(supabase, campaignIds) is called
StartAggregation(i) ==
  /\ pc[i] = "idle"
  /\ runs = 0
  /\ runs' = 1
  /\ \E campaignIds \in CampaignIdLists :
       affected' = [affected EXCEPT ![i] = campaignIds]
  /\ pc' = [pc EXCEPT ![i] = "count"]
  /\ UNCHANGED <<storeVars, sendVars, trackVars, wireVars, signLog, aborts, pendingEmails, gi,
                 ei, sendResult, replies, ai, pendingCount, counts, response,
                 connOpen>>

\* it has returned and is called again with the same campaignIds
AggregateAgain(i) ==
  /\ pc[i] = "respond"
  /\ runs < MaxRuns
  /\ runs' = runs + 1
  /\ ai' = [ai EXCEPT ![i] = 1]
  /\ pc' = [pc EXCEPT ![i] = "count"]
  /\ UNCHANGED <<storeVars, sendVars, trackVars, wireVars, signLog, aborts, pendingEmails, gi,
                 ei, sendResult, replies, affected, pendingCount, counts,
                 response, connOpen>>

InitAggregate ==
  InitFrom({[m \in Msgs |-> RowIn(st[m])] :
              st \in [Msgs -> {"pending", "sent", "failed"}]},
           [Campaigns -> {"queued", "sending", "completed"}],
           {[u \in Users |-> FreshProfile]}, {<<>>})

NextAggregate ==
  \E i \in {1} :
    \/ StartAggregation(i)
    \/ CountPending(i)
    \/ SetCampaignStatus(i)
    \/ AggregateAgain(i)
    \/ Respond(i)
    \/ Finish(i)

SpecAggregate == InitAggregate /\ [][NextAggregate]_vars

\* ---- link rewriting and the tracking endpoints ----------------------------

UnknownId == 0
Events == Cardinality(email_opens) + Cardinality(email_clicks)

\* process-queue rewrites the links of a body for the row id
Rewrite(id) ==
  /\ rewritten = NotRewritten
  /\ rewritten' = [id |-> id,
                   html |-> rewriteLinksForTracking(html, id, SupabaseUrl)]
  /\ UNCHANGED <<engineVars, html, request, reply, email_opens, email_clicks>>

\* a reader follows a link of the rewritten body that leads to track-click
FollowLink ==
  /\ request = NoRequest
  /\ rewritten # NotRewritten
  /\ Events < MaxEvents
  /\ \E k \in 1..Len(rewritten.html) :
       /\ rewritten.html[k].tag = "a"
       /\ PointsToEndpoint(rewritten.html[k].url, "track-click")
       /\ request' = [fn |-> "track-click", method |-> "GET",
                      url |-> rewritten.html[k].url]
  /\ UNCHANGED <<engineVars, html, rewritten, reply, email_opens, email_clicks>>

\* any other request to track-click
ClickRequest ==
  /\ request = NoRequest
  /\ rewritten # NotRewritten
  /\ Events < MaxEvents
  /\ \E method \in {"GET", "OPTIONS"},
        url \in {<<SupabaseUrl, "/functions/v1/", "track-click">>,
                 <<SupabaseUrl, "/functions/v1/", "track-click", "?id=", "1">>,
                 trackingUrl(SupabaseUrl, UnknownId, ShopUrl)} :
       request' = [fn |-> "track-click", method |-> method, url |-> url]
  /\ UNCHANGED <<engineVars, html, rewritten, reply, email_opens, email_clicks>>

\* a mail reader loads the beacon, or anyone requests track-open
OpenRequest ==
  /\ request = NoRequest
  /\ Events < MaxEvents
  /\ \E method \in {"GET", "POST", "OPTIONS"},
        url \in {<<SupabaseUrl, "/functions/v1/", "track-open">>}
                 \cup {trackingPixelUrl(SupabaseUrl, id) :
                         id \in Msgs \cup {UnknownId}} :
       request' = [fn |-> "track-open", method |-> method, url |-> url]
  /\ UNCHANGED <<engineVars, html, rewritten, reply, email_opens, email_clicks>>

\* Deno.serve of track-open
TrackOpen ==
  /\ request.fn = "track-open"
  /\ request' = NoRequest
  /\ IF request.method = "OPTIONS"
     THEN reply' = Preflight /\ email_opens' = email_opens
     ELSE LET emailQueueId == SearchParam(request.url, "?id=") IN
          /\ reply' = Pixel
          /\ IF emailQueueId = <<>>
             THEN email_opens' = email_opens
             ELSE \E answer \in {"row", "error", "throws"}, inserted \in BOOLEAN :
                    IF answer = "row" /\ FindQueueItem(emailQueueId) # {} /\ inserted
                    THEN \E m \in FindQueueItem(emailQueueId) :
                           email_opens' = email_opens \cup
                             {[n |-> Cardinality(email_opens) + 1,
                               email_queue_id |-> m,
                               campaign_id |-> campaign_id(m),
                               user_id |-> user_id(m)]}
                    ELSE email_opens' = email_opens
  /\ UNCHANGED <<engineVars, html, rewritten, email_clicks>>

\* Response.redirect(originalUrl, 302) in the try block and again in the catch
\* block: a TypeError thrown by both leaves the platform to answer
RedirectReply(originalUrl) ==
  IF IsAbsoluteUrl(originalUrl) THEN Redirect(originalUrl) ELSE Unhandled

\* Deno.serve of track-click
TrackClick ==
  /\ request.fn = "track-click"
  /\ request' = NoRequest
  /\ IF request.method = "OPTIONS"
     THEN reply' = Preflight /\ email_clicks' = email_clicks
     ELSE LET emailQueueId == SearchParam(request.url, "?id=")
              originalUrl == SearchParam(request.url, "&url=")
          IN
          IF emailQueueId = <<>> \/ originalUrl = <<>>
          THEN /\ reply' = [status |-> 400, body |-> "Missing parameters",
                            location |-> <<>>]
               /\ email_clicks' = email_clicks
          ELSE /\ reply' = RedirectReply(originalUrl)
               /\ \E answer \in {"row", "error", "throws"}, inserted \in BOOLEAN :
                    IF answer = "row" /\ FindQueueItem(emailQueueId) # {} /\ inserted
                    THEN \E m \in FindQueueItem(emailQueueId) :
                           email_clicks' = email_clicks \cup
                             {[n |-> Cardinality(email_clicks) + 1,
                               email_queue_id |-> m,
                               campaign_id |-> campaign_id(m),
                               user_id |-> user_id(m),
                               original_url |-> originalUrl]}
                    ELSE email_clicks' = email_clicks
  /\ UNCHANGED <<engineVars, html, rewritten, email_opens>>

InitTracking == InitState({[u \in Users |-> FreshProfile]}, Htmls)

NextTracking ==
  \/ \E id \in Msgs \cup {UnknownId} : Rewrite(id)
  \/ FollowLink
  \/ ClickRequest
  \/ OpenRequest
  \/ TrackOpen
  \/ TrackClick

SpecTracking == InitTracking /\ [][NextTracking]_vars

\* ---- the track-open endpoint on its own ------------------------------------
NextTrackOpen ==
  \/ OpenRequest
  \/ TrackOpen

SpecTrackOpen == InitOverlap /\ [][NextTrackOpen]_vars

\* ---- the handler before a provider was wired in ---------------------------
\* supabase/functions/process-queue/index.ts: each fetched row is marked sent
\* without being handed to a provider, then the campaigns are aggregated
MarkSentUnsent(i) ==
  /\ pc[i] = "mark"
  /\ email_queue' = UpdateSent(email_queue, pendingEmails[i][ei[i]])
  /\ counts' = [counts EXCEPT ![i].success = @ + 1]
  /\ IF ei[i] < Len(pendingEmails[i])
     THEN /\ ei' = [ei EXCEPT ![i] = @ + 1]
          /\ UNCHANGED <<pc, affected>>
     ELSE /\ ei' = [ei EXCEPT ![i] = 1]
          /\ affected' = [affected EXCEPT ![i] = CampaignIdsOf(pendingEmails[i])]
          /\ pc' = [pc EXCEPT ![i] = "count"]
  /\ UNCHANGED <<campaigns, profiles, sendVars, trackVars, wireVars, signLog, budgetVars, pendingEmails,
                 gi, sendResult, replies, ai, pendingCount, response, connOpen>>

NextPlaceholder ==
  \E i \in Invocations :
    \/ Fetch(i, "mark")
    \/ FetchError(i)
    \/ MarkSentUnsent(i)
    \/ CountPending(i)
    \/ SetCampaignStatus(i)
    \/ Respond(i)
    \/ Finish(i)

SpecPlaceholder == InitOverlap /\ [][NextPlaceholder]_vars

\* ---- notions the properties share ----------------------------------------
InProgress(i) == pc[i] \notin {"idle", "returned"}

Quiescent == \A i \in Invocations : ~InProgress(i)

BatchIds(i) == {pendingEmails[i][k].id : k \in 1..Len(pendingEmails[i])}

UnderLimits(profile) ==
  /\ profile.emails_sent_this_hour < profile.hourly_send_limit
  /\ profile.emails_sent_today < profile.daily_send_limit

\* the step hands row m to the SMTP server (MAIL FROM is issued)
Dispatches(m) == dispatched'[m] = dispatched[m] + 1

\* ---- properties -------------------------------------------------------------
\* C1: whenever no invocation is in progress (and none was ended early), the
\* stored attempt_count of every row equals the number of times the row was
\* dispatched to the SMTP server.
C1_AttemptCountEqualsDispatches ==
  (Quiescent /\ aborts = 0) =>
    \A m \in Msgs : email_queue[m].attempt_count = dispatched[m]

\* C2: a step changes a row of email_queue only if the stored status of that
\* row is pending: sent and failed rows are never written again.
C2_OnlyPendingRowsAreWritten ==
  [][\A m \in Msgs :
       email_queue'[m] # email_queue[m] => email_queue[m].status = "pending"]_vars

\* C3: a row is dispatched only while its account is under both limits, and
\* rows of an account at or over a limit stay pending.
C3_AttemptOnlyUnderLimits ==
  [][\A m \in Msgs :
       ~UnderLimits(profiles[user_id(m)]) =>
         /\ ~Dispatches(m)
         /\ email_queue'[m].status = "pending"]_vars

\* C4: every dispatch adds exactly one to the hourly and to the daily counter
\* of the owning account.
C4_AttemptIsCharged ==
  [][\A m \in Msgs :
       Dispatches(m) =>
         /\ profiles'[user_id(m)].emails_sent_this_hour
              = profiles[user_id(m)].emails_sent_this_hour + 1
         /\ profiles'[user_id(m)].emails_sent_today
              = profiles[user_id(m)].emails_sent_today + 1]_vars

\* C5: whenever no invocation is in progress (and none was ended early), a
\* campaign with a dispatched row is completed if none of its rows is pending
\* and sending otherwise.
C5_CampaignStatusMatchesPending ==
  (Quiescent /\ aborts = 0) =>
    \A c \in Campaigns :
      (\E m \in Msgs : campaign_id(m) = c /\ dispatched[m] > 0) =>
        campaigns[c] = NewStatus(CountPendingOf(email_queue, c))

\* ---- C6 ----------------------------------------------------------------------
\* the server accepted the message the invocation has just transmitted
ProviderAccepted(i) ==
  /\ "content" \in DOMAIN replies[i]
  /\ replies[i].mail = "250" /\ replies[i].rcpt = "250"
  /\ replies[i].data = "354" /\ replies[i].content = "250"

\* rows of the batch of i that its loop has not reached yet
NotYetReached(i) ==
  IF pc[i] \notin {"profile", "connect", "send", "record", "markConfig", "markConn", "close"}
  THEN {}
  ELSE LET keys == GroupKeys(pendingEmails[i])
           later == {m \in BatchIds(i) :
                       \E g \in (gi[i] + 1)..Len(keys) : user_id(m) = keys[g]}
           from == IF pc[i] = "close" THEN Len(CurGroup(i)) + 1
                   ELSE IF pc[i] = "record" THEN ei[i] + 1 ELSE ei[i]
       IN later \cup {CurGroup(i)[k].id : k \in from..Len(CurGroup(i))}

WritesStatus(m) == email_queue'[m].status # email_queue[m].status

\* C6: a row becomes sent only in the step that stores the outcome of a
\* transaction the server accepted, and failed only in a step that stores a
\* known failure; ending an invocation early changes no row, and the rows
\* its loop had not reached are still pending.
C6_StatusWrittenAfterResult ==
  /\ [](\A m \in NotYetReached(1) : email_queue[m].status = "pending")
  /\ [][/\ \A m \in Msgs :
             WritesStatus(m) =>
               \E i \in Invocations :
                 /\ pc[i] \in {"record", "markConfig", "markConn"}
                 /\ CurEmail(i).id = m
                 /\ email_queue'[m].status = "sent" =>
                      (pc[i] = "record" /\ ProviderAccepted(i))
                 /\ email_queue'[m].status \in {"sent", "failed"}
        /\ aborts' # aborts => email_queue' = email_queue]_vars

C6_Witness ==
  /\ aborts = 1
  /\ Quiescent
  /\ \E m \in Msgs : email_queue[m].status = "sent"
  /\ \E m \in Msgs : email_queue[m].status = "failed"
  /\ \E m \in Msgs : email_queue[m].status = "pending" /\ created_at(m) = 2

\* ---- C7 ----------------------------------------------------------------------
IdsOf(batch) == {batch[k].id : k \in 1..Len(batch)}

\* C7: a fetched batch holds at most BatchLimit rows, all pending when
\* fetched, none of them newer than a pending row left out; and only rows of
\* the batch of a running invocation are dispatched, each at the position
\* the loop of that invocation has reached.
C7_BatchIsOldestPending ==
  [][/\ \A i \in Invocations :
          (pendingEmails'[i] # pendingEmails[i] /\ pendingEmails'[i] # <<>>) =>
            LET B == IdsOf(pendingEmails'[i]) IN
            /\ Len(pendingEmails'[i]) <= BatchLimit
            /\ Cardinality(B) = Len(pendingEmails'[i])
            /\ B \subseteq PendingRows(email_queue)
            /\ \A m \in PendingRows(email_queue) \ B :
                 \A b \in B : created_at(b) <= created_at(m)
     /\ \A m \in Msgs :
          Dispatches(m) =>
            \E i \in Invocations :
              /\ pc[i] = "send" /\ CurEmail(i).id = m
              /\ m \in BatchIds(i)]_vars

C7_Witness ==
  \E i \in Invocations :
    /\ Len(pendingEmails[i]) = BatchLimit
    /\ \E b \in BatchIds(i) : dispatched[b] > 0
    /\ \E m \in PendingRows(email_queue) \ BatchIds(i) :
         \A b \in BatchIds(i) : created_at(b) <= created_at(m)

RejectionTexts ==
  {SendErrorText("MAIL FROM failed"), SendErrorText("RCPT TO failed"),
   SendErrorText("DATA failed"), SendErrorText("Send failed")}

HandshakeFailed(enc, r) ==
  \/ r = NoReplies
  \/ (enc # "ssl" /\ r.starttls # "220")
  \/ r.auth # "334" \/ r.user # "334" \/ r.pass # "235"

GroupIds(i) == {CurGroup(i)[k].id : k \in 1..Len(CurGroup(i))}

\* C9: a failed connect, STARTTLS or AUTH LOGIN phase sends the invocation
\* into the loop that marks every row of the group failed with the
\* connection-error text; when the loop ends the whole group is failed and
\* the invocation goes on to the next group.
C9_HandshakeFailureFailsGroup ==
  [][\A i \in Invocations :
       /\ (pc[i] = "connect" /\ pc'[i] \in {"send", "markConn"}) =>
            (pc'[i] = "markConn"
               <=> HandshakeFailed(smtp_encryption(CurUser(i)), replies'[i]))
       /\ (pc[i] = "markConn" /\ pc'[i] # "returned") =>
            /\ email_queue'[CurEmail(i).id].status = "failed"
            /\ email_queue'[CurEmail(i).id].error_log
                 = ConnectionErrorText(sendResult[i])
            /\ \A m \in Msgs \ {CurEmail(i).id} : email_queue'[m] = email_queue[m]
            /\ pc'[i] # "markConn" =>
                 /\ \A m \in GroupIds(i) :
                      /\ email_queue'[m].status = "failed"
                      /\ email_queue'[m].error_log = ConnectionErrorText(sendResult[i])
                 /\ gi[i] < Len(GroupKeys(pendingEmails[i])) =>
                      (pc'[i] = "profile" /\ gi'[i] = gi[i] + 1)]_vars

C9_Witness ==
  /\ runs = 1
  /\ \E m, n \in Msgs :
       /\ user_id(m) # user_id(n) /\ created_at(m) < created_at(n)
       /\ email_queue[m].status = "failed"
       /\ email_queue[m].error_log = ConnectionErrorText("STARTTLS failed")
       /\ email_queue[n].status = "sent"

\* ---- C10 ---------------------------------------------------------------------
LacksSmtpSettings(profile) ==
  ~profile.smtp_host \/ ~profile.smtp_username \/ ~profile.smtp_password

C11_FetchErrorChangesNothing ==
  /\ [](\A i \in Invocations :
          response[i].kind = "error" =>
            (pc[i] = "returned" /\ pendingEmails[i] = <<>>))
  /\ [][\A i \in Invocations :
          (response'[i].kind = "error" /\ response[i].kind # "error") =>
            /\ pc[i] = "idle"
            /\ email_queue' = email_queue
            /\ campaigns' = campaigns
            /\ profiles' = profiles
            /\ dispatched' = dispatched]_vars

C11_Witness ==
  /\ response[1].kind = "error"
  /\ \E m \in Msgs : email_queue[m].status = "pending"
  /\ \E m \in Msgs : email_queue[m].status = "sent"

\* ---- C12 ---------------------------------------------------------------------
\* the outcome update of the step was refused by the store
OutcomeNotStored(i) ==
  /\ pc[i] = "record"
  /\ pc'[i] \in {"send", "close"}
  /\ email_queue' = email_queue

\* C12: when the update that stores an outcome is refused, the invocation
\* goes on with the rest of the group and the message is not counted as a
\* success.
C12_WriteFailureIsSurfaced ==
  [][\A i \in Invocations :
       OutcomeNotStored(i) =>
         /\ counts'[i].success = counts[i].success
         /\ ei[i] < Len(CurGroup(i)) => pc'[i] = "send"]_vars

\* ---- C13 ---------------------------------------------------------------------
\* C13: every body handed to a provider for a row ends with the beacon image
\* that carries the id of the row, and each of its anchors leads to the
\* track-click endpoint.
C13_HandedBodyIsTracked ==
  \A m \in Msgs : \A b \in handed[m] :
    /\ Len(b) >= 1
    /\ b[Len(b)] = Img(trackingPixelUrl(SupabaseUrl, m))
    /\ \A k \in 1..Len(b) :
         b[k].tag = "a" => PointsToEndpoint(b[k].url, "track-click")

\* ---- C14 ---------------------------------------------------------------------
\* an anchor the rewriting has to leave as it is
IsExempt(url) ==
  \/ StartsWith(url, "mailto:")
  \/ PointsToEndpoint(url, "track-open")
  \/ PointsToEndpoint(url, "track-click")

\* C14: in the rewritten body an anchor whose href starts with mailto: or
\* leads to the track-open or track-click endpoint is as it was; every other
\* anchor has the track-click URL with the row id and the encoded original
\* href as its href and is otherwise as it was; text is as it was.
C14_RewriteIsSelective ==
  rewritten # NotRewritten =>
    /\ Len(rewritten.html) = Len(html)
    /\ \A k \in 1..Len(html) :
         LET old == html[k]
             new == rewritten.html[k]
         IN IF old.tag = "a" /\ ~IsExempt(old.url)
            THEN /\ new.url = trackingUrl(SupabaseUrl, rewritten.id, old.url)
                 /\ [new EXCEPT !.url = old.url] = old
            ELSE new = old

\* ---- C15 ---------------------------------------------------------------------
\* C15: track-open answers every request that is not OPTIONS with the pixel;
\* a step of it adds at most one email_opens row, only for an id that is
\* the id of a queue row, and removes or changes no row of any table.
C15_TrackOpenAlwaysPixel ==
  [][request.fn = "track-open" =>
       /\ request.method # "OPTIONS" => reply' = Pixel
       /\ email_opens \subseteq email_opens'
       /\ \A e \in email_opens' \ email_opens :
            /\ request.method # "OPTIONS"
            /\ SearchParam(request.url, "?id=") = <<ToString(e.email_queue_id)>>
            /\ e.email_queue_id \in Msgs
       /\ Cardinality(email_opens') <= Cardinality(email_opens) + 1
       /\ UNCHANGED <<email_queue, campaigns, profiles, email_clicks>>]_vars

C15_Witness ==
  /\ reply = Pixel
  /\ request = NoRequest
  /\ Cardinality(email_opens) = 1
  /\ email_clicks = {}

\* ---- C16 ---------------------------------------------------------------------
\* the hrefs of html that the rewriting replaced by the URL now requested
OriginalsOf(url) ==
  {html[k].url : k \in {j \in 1..Len(html) :
                          /\ j <= Len(rewritten.html)
                          /\ html[j].tag = "a"
                          /\ rewritten.html[j] # html[j]
                          /\ rewritten.html[j].url = url}}

\* C16: a GET of a track-click URL that the rewriting produced is answered
\* with a 302 whose Location is the original href, and a click row is added
\* only for the id of a queue row, with that original href.
C16_ClickRoundTrip ==
  [][(request.fn = "track-click" /\ request.method = "GET") =>
       \A u \in OriginalsOf(request.url) :
         /\ reply' = Redirect(u)
         /\ \A e \in email_clicks' \ email_clicks :
              /\ e.original_url = u
              /\ e.email_queue_id = rewritten.id
              /\ rewritten.id \in Msgs]_vars

\* ---- C17 ---------------------------------------------------------------------
\* the SES answer of the step is an error response with a <Message> element
SesRejected(i) ==
  /\ pc[i] = "sesRecord"
  /\ pc'[i] \in {"sesSend", "count"}
  /\ replies[i].kind = "http" /\ ~replies[i].ok
  /\ HasMessage(replies[i].text)

RowFailedWith(i, text) ==
  LET m == SesEmail(i).id IN
  /\ email_queue'[m].status = "failed"
  /\ email_queue'[m].error_log = text
  /\ email_queue'[m].attempt_count = email_queue[m].attempt_count + 1

C19_InvocationReturns ==
  [](InProgress(1) =>
       <>(pc[1] = "returned" /\ response[1].kind \in {"ok", "empty", "error"}))

\* ---- C20 ---------------------------------------------------------------------
RECURSIVE DispatchedUpTo(_, _)
DispatchedUpTo(u, n) ==
  IF n = 0 THEN 0
  ELSE DispatchedUpTo(u, n - 1) + (IF user_id(n) = u THEN dispatched[n] ELSE 0)

\* messages the account may still send in the current hour
QuotaLeft(u) ==
  profiles[u].hourly_send_limit - profiles[u].emails_sent_this_hour

\* C20: for an account with quota left for one more message, the
\* invocations together dispatch at most one of its messages.
C20_NoDoubleAdmission ==
  \A u \in Users : QuotaLeft(u) = 1 => DispatchedUpTo(u, NumMsgs) <= 1

\* ---- C21 ---------------------------------------------------------------------
\* C21: in every reachable state each row with status sent has a sent-at
\* timestamp and each row with status failed has an error text that is not
\* empty.
C21_OutcomeRecordedCompletely ==
  \A m \in Msgs :
    /\ email_queue[m].status = "sent" => email_queue[m].sent_at
    /\ email_queue[m].status = "failed" => email_queue[m].error_log # NullText

\* ---- C22 ---------------------------------------------------------------------
\* rows of the batch of i that are stored with the given status
BatchRowsIn(i, status) ==
  Cardinality({m \in BatchIds(i) : email_queue[m].status = status})

\* C22: the summary an invocation returns has processed equal to the length
\* of its batch, success + errors equal to processed, success equal to the
\* number of rows of its batch stored as sent and errors equal to the number
\* stored as failed.
C22_SummaryMatchesOutcome ==
  [][\A i \in Invocations :
       (pc[i] = "respond" /\ response'[i].kind = "ok") =>
         /\ response'[i].processed = Len(pendingEmails[i])
         /\ response'[i].success + response'[i].errors = response'[i].processed
         /\ response'[i].success = BatchRowsIn(i, "sent")
         /\ response'[i].errors = BatchRowsIn(i, "failed")]_vars

Appends == Len(wire') = Len(wire) + 1
Appended == wire'[Len(wire')]
Previous ==
  IF wire = <<>> THEN [Written("greeting", tlsOn, 0, <<>>) EXCEPT !.ans = "220"]
  ELSE wire[Len(wire)]

EhlosBefore(k) == Cardinality({j \in 1..(k - 1) : wire'[j].cmd = "EHLO"})

\* each command of the handshake follows the command, and the answer, that
\* the order asks for; the credentials go over TLS; MAIL FROM follows a 235
HandshakeStep(enc) ==
  LET new == Appended
      prev == Previous
  IN CASE new.cmd = "EHLO" ->
            \/ prev.cmd = "greeting" /\ new.tls = (enc = "ssl")
            \/ /\ prev.cmd = "STARTTLS" /\ prev.ans = "220"
               /\ ~prev.tls /\ new.tls
       [] new.cmd = "STARTTLS" ->
            enc # "ssl" /\ prev.cmd = "EHLO" /\ ~prev.tls /\ ~new.tls
       [] new.cmd = "AUTH LOGIN" -> prev.cmd = "EHLO" /\ prev.tls /\ new.tls
       [] new.cmd = "username" ->
            prev.cmd = "AUTH LOGIN" /\ prev.ans = "334" /\ new.tls
       [] new.cmd = "password" ->
            prev.cmd = "username" /\ prev.ans = "334" /\ new.tls
       [] new.cmd = "MAIL FROM" ->
            \E k \in 1..Len(wire) :
              wire[k].cmd = "password" /\ wire[k].ans = "235" /\ wire[k].tls
       [] OTHER -> TRUE

\* C24 as stated: on every connection greeting, EHLO, (STARTTLS mode only:
\* STARTTLS, 220, TLS upgrade), EHLO, AUTH LOGIN, username, password in this
\* order, so AUTH LOGIN follows two EHLO; no MAIL FROM before the 235; no
\* credentials before TLS.
C24_HandshakeOrderAsStated ==
  [][\A i \in {1} :
       (Appends /\ pc[i] \in {"connect", "send"}) =>
         /\ HandshakeStep(smtp_encryption(CurUser(i)))
         /\ Appended.cmd = "AUTH LOGIN" => EhlosBefore(Len(wire')) = 2]_vars

\* C24 with one EHLO on an implicit-TLS connection: greeting, EHLO,
\* (STARTTLS mode only: STARTTLS, 220, TLS upgrade, EHLO), AUTH LOGIN,
\* username, password; no MAIL FROM before the 235; no credentials before TLS.
C24_HandshakeOrder ==
  [][\A i \in {1} :
       (Appends /\ pc[i] \in {"connect", "send"}) =>
         /\ HandshakeStep(smtp_encryption(CurUser(i)))
         /\ Appended.cmd = "AUTH LOGIN" =>
              EhlosBefore(Len(wire')) =
                IF smtp_encryption(CurUser(i)) = "ssl" THEN 1 ELSE 2]_vars

C24_Witness ==
  /\ cstep = "mail"
  /\ \E k \in 1..Len(wire) : wire[k].cmd = "STARTTLS" /\ wire[k].ans = "220"
  /\ \E k \in 1..Len(wire) : wire[k].cmd = "password" /\ wire[k].tls

\* ---- C25 ---------------------------------------------------------------------
\* wire[k] is the command cmd of the transaction of row m, answered with code
AnsweredAt(k, cmd, m, code) ==
  /\ k \in 1..Len(wire)
  /\ wire[k].cmd = cmd /\ wire[k].msg = m /\ wire[k].ans = code

\* the last four elements of wire are the transaction of row m, each
\* answered with the code that lets the client go on
TransactionAccepted(m) ==
  LET n == Len(wire) IN
  /\ AnsweredAt(n - 3, "MAIL FROM", m, "250")
  /\ AnsweredAt(n - 2, "RCPT TO", m, "250")
  /\ AnsweredAt(n - 1, "DATA", m, "354")
  /\ AnsweredAt(n, "content", m, "250")

\* a later command of a transaction is written only after the command
\* before it, of the same row, was answered with the expected code
TransactionStep ==
  LET new == Appended
      prev == Previous
  IN CASE new.cmd = "RCPT TO" ->
            prev.cmd = "MAIL FROM" /\ prev.msg = new.msg /\ prev.ans = "250"
       [] new.cmd = "DATA" ->
            prev.cmd = "RCPT TO" /\ prev.msg = new.msg /\ prev.ans = "250"
       [] new.cmd = "content" ->
            prev.cmd = "DATA" /\ prev.msg = new.msg /\ prev.ans = "354"
       [] OTHER -> TRUE

\* C25: a row is marked sent only when MAIL FROM, RCPT TO, DATA and the
\* content of its transaction were answered 250, 250, 354 and 250 in this
\* order, and after another answer to one of them no later command of the
\* transaction is written.
C25_SentOnlyAfterFullTransaction ==
  [][/\ \A m \in Msgs :
          (email_queue'[m].status = "sent" /\ email_queue[m].status # "sent") =>
            TransactionAccepted(m)
     /\ Appends => TransactionStep]_vars

C25_Witness ==
  \E i \in {1} :
    /\ pc[i] \in {"send", "close"} /\ cstep = "idle"
    /\ \E m, n \in Msgs :
         /\ email_queue[m].status = "sent"
         /\ TransactionAccepted(m)
         /\ email_queue[n].status = "failed"
         /\ email_queue[n].error_log = SendErrorText("DATA failed")

\* ---- C26 ---------------------------------------------------------------------
\* an await of conn.read resolves in connect or sendEmail: the client takes
\* all of buf as the reply to the command it wrote last
Reads == cstep \notin {"idle", "quit"} /\ buf # <<>> /\ buf' = <<>>

\* C26: every line the client takes in a read, and tests as the reply to the
\* command it wrote last, is a line of the server's reply to that command
\* (of the greeting before any command): no line of an earlier reply is
\* attributed to a later command.
C26_ReplyBelongsToCommand ==
  [][Reads => \A j \in 1..Len(buf) : buf[j].of = Len(wire)]_vars

\* ---- C27 ---------------------------------------------------------------------
\* C27: the data section the server reads after 354 ends at the last line of
\* the content the client wrote, the single dot the client appends: no line
\* of the body ends it earlier, so no line of the content is left for the
\* server to read as a command.
C27_DataEndsAtAppendedDot ==
  \A k \in 1..Len(wire) :
    (wire[k].cmd = "content" /\ wire[k].end # 0) =>
      wire[k].end = Len(wire[k].lines)

\* ---- C28 ---------------------------------------------------------------------
\* the rows of the MAIL FROM commands written on the connection, in order
MailFromRows(w) ==
  LET S == SelectSeq(w, LAMBDA e : e.cmd = "MAIL FROM")
  IN [j \in 1..Len(S) |-> S[j].msg]

\* client.connect opens a socket
OpensConnection == srvMode = "closed" /\ srvMode' # "closed"

\* a socket is opened for an account that has none open and of which no
\* earlier group of the invocation was
OneConnectionPerAccount ==
  OpensConnection =>
    \E i \in {1} :
      /\ pc[i] = "connect"
      /\ CurUser(i) \notin connOpen[i]
      /\ \A j \in 1..(gi[i] - 1) : GroupKeys(pendingEmails[i])[j] # CurUser(i)

\* the transactions on a connection are those of the account's rows of the
\* batch in batch order, all of them when QUIT is written
SentInBatchOrder ==
  Appends =>
    \E i \in {1} :
      LET rows == MailFromRows(wire')
          group == CurGroup(i)
      IN /\ Len(rows) <= Len(group)
         /\ \A j \in 1..Len(rows) : rows[j] = group[j].id
         /\ Appended.cmd = "QUIT" => Len(rows) = Len(group)

\* a command is written when the server has answered the one before it and
\* nothing of the answer is still under way
NoPipelining ==
  (Appends /\ wire # <<>>) => (srvAt = Len(wire) /\ net = <<>>)

\* C28: in an invocation at most one connection is opened per account, the
\* account's rows of the batch are sent over it one after another in batch
\* order, and no command is written before the reply to the command before
\* it has been read.
C28_OneConnectionSequentialNoPipelining ==
  [][OneConnectionPerAccount /\ SentInBatchOrder /\ NoPipelining]_vars

\* ---- C29 ---------------------------------------------------------------------
\* the places of the batch where the email e stands
PlacesIn(batch, e) == {k \in 1..Len(batch) : batch[k] = e}

\* C29: the groups partition the fetched batch: every email of the batch is
\* in exactly one group, once, and that group is the one of its user_id; a
\* group holds emails of the batch only, in the order they have in the batch.
C29_GroupingPartitionsBatch ==
  \A i \in Invocations :
    LET batch == pendingEmails[i]
        map == emailsByUser(batch)
    IN /\ \A k \in 1..Len(batch) :
            /\ user_id(batch[k].id) \in DOMAIN map
            /\ \A u \in DOMAIN map :
                 Cardinality(PlacesIn(map[u], batch[k])) =
                   IF u = user_id(batch[k].id) THEN 1 ELSE 0
       /\ \A u \in DOMAIN map :
            \A a, b \in 1..Len(map[u]) :
              a < b =>
                \E ka \in PlacesIn(batch, map[u][a]) :
                \E kb \in PlacesIn(batch, map[u][b]) : ka < kb
       /\ Range(GroupKeys(batch)) = DOMAIN map
       /\ Len(GroupKeys(batch)) = Cardinality(DOMAIN map)

\* a batch in which the rows of one account stand around a row of another,
\* and the second group of it is being sent
C29_Witness ==
  \E i \in {1} :
    /\ Len(pendingEmails[i]) = 3
    /\ user_id(pendingEmails[i][1].id) = user_id(pendingEmails[i][3].id)
    /\ user_id(pendingEmails[i][1].id) # user_id(pendingEmails[i][2].id)
    /\ pc[i] = "record"
    /\ gi[i] = 2

\* ---- C30 ---------------------------------------------------------------------
\* the columns of email_queue in which the outcome of an attempt is stored
OutcomeColumns == {"status", "attempt_count", "error_log", "sent_at"}

\* rows and campaigns that a step changes
ChangedRows == {m \in Msgs : email_queue'[m] # email_queue[m]}
ChangedCampaigns == {c \in Campaigns : campaigns'[c] # campaigns[c]}

\* C30: a step of the engine deletes no row of email_queue and changes no
\* column of a row but status, attempt_count, error_log and sent_at; the rows
\* it changes are rows of the batch of a running invocation and the campaigns
\* it changes are campaigns of rows of that batch; profiles are not written.
C30_OnlyOutcomeOfOwnBatch ==
  [][/\ DOMAIN email_queue' = DOMAIN email_queue
     /\ \A m \in Msgs :
          /\ DOMAIN email_queue'[m] = DOMAIN email_queue[m]
          /\ \A col \in DOMAIN email_queue[m] \ OutcomeColumns :
               email_queue'[m][col] = email_queue[m][col]
     /\ profiles' = profiles
     /\ (ChangedRows # {} \/ ChangedCampaigns # {}) =>
          \E i \in Invocations :
            /\ pc[i] \notin {"idle", "returned"}
            /\ ChangedRows \subseteq BatchIds(i)
            /\ ChangedCampaigns \subseteq {campaign_id(m) : m \in BatchIds(i)}]_vars

\* an invocation has stored the outcome of a row of its batch and set the
\* campaign of that row, while a pending row outside the batch is as queued
C30_Witness ==
  \E i \in {1} : \E m, n \in Msgs :
    /\ pc[i] = "respond"
    /\ m \in BatchIds(i) /\ email_queue[m].status = "sent"
    /\ campaigns[campaign_id(m)] = "sending"
    /\ n \notin BatchIds(i)
    /\ email_queue[n] = Queued(NewRow, n)

\* ---- C31 ---------------------------------------------------------------------
\* C31: as long as no invocation was ended early and every outcome write is
\* stored, no row is handed to the SMTP server more than once, by one
\* invocation after another or by invocations that run at the same time.
C31_DispatchedAtMostOnce ==
  aborts = 0 => \A m \in Msgs : dispatched[m] <= 1

\* ---- C32 ---------------------------------------------------------------------
\* invocation i returns in this step
Returns(i) == pc[i] # "returned" /\ pc'[i] = "returned"

\* C32: when an invocation returns, no socket it opened is still open: the
\* connection of every group was closed, also of a group whose handshake or
\* authentication failed after the socket was established.
C32_ConnectionsClosedAtReturn ==
  [][\A i \in Invocations : Returns(i) => connOpen[i] = {}]_vars

\* ---- C33 ---------------------------------------------------------------------
\* the server has accepted the content of row m on this connection
ServerAccepted(m) ==
  \E k \in 1..Len(wire) :
    wire[k].cmd = "content" /\ wire[k].msg = m /\ wire[k].ans = "250"

\* no row of the group of invocation i is pending, and every row whose
\* content the server has not accepted is marked failed
RestOfGroupFailed(i) ==
  \A k \in 1..Len(CurGroup(i)) :
    LET m == CurGroup(i)[k].id IN
    /\ email_queue[m].status # "pending"
    /\ ~ServerAccepted(m) => email_queue[m].status = "failed"

\* the loop over a group has ended on a connection whose loss the client was
\* told of: the rows of the group are settled
ReportedLossFailsRest ==
  \A i \in {1} : (pc[i] = "close" /\ srvMode = "lost") => RestOfGroupFailed(i)

\* C33: when the connection is lost after the handshake, between two rows or
\* inside the transaction of a row, the loop over the group comes to its end
\* with no row of the group pending and with every row the server had not
\* accepted (the row at which it was lost and every later row) marked failed.
C33_LostConnectionFailsRest ==
  (srvMode \in {"lost", "silent"} /\ pc[1] \in {"send", "record"}) ~>
    (pc[1] = "close" /\ RestOfGroupFailed(1))

\* ---- C34 ---------------------------------------------------------------------
\* no row is pending
NoPending == \A m \in Msgs : email_queue[m].status # "pending"

\* every campaign that has rows is completed
CampaignsCompleted ==
  \A c \in Campaigns :
    (\E m \in Msgs : campaign_id(m) = c) => campaigns[c] = "completed"

\* C34: when invocations keep being run (the runs the scheduler is given are
\* not used up while rows are pending), nothing is enqueued and every write
\* is stored, then from some point on no row is pending and every campaign
\* that has rows is completed.
C34_QueueDrains ==
  <>[](\/ NoPending /\ CampaignsCompleted
       \/ ~NoPending /\ runs = MaxRuns)

====
